---- MODULE Spec2Model ----
(***************************************************************************)
(* State-machine model of the mnemonic native memory engine:               *)
(*   SolutionCache / MemoryEngine   (memory_engine.h, memory_engine.cpp)   *)
(*   SearchSessionAggregate / DomainMemoryEngine (domain_engine.cpp)       *)
(* Times are whole seconds since the epoch, as std::time_t holds them.     *)
(* A created_date is the decimal string std::to_string writes, modelled as *)
(* the sequence of its decimal digits; std::stoll reads it back.           *)
(***************************************************************************)
EXTENDS Integers, Sequences, FiniteSets, TLC

VARIABLES
    now,            \* std::chrono::system_clock::now(), in seconds
    cache,          \* one SolutionCache: project_solutions, global_solutions
    inserted,       \* history: every solution passed to addSolution, per scope and key
    n_adds,         \* history: number of addSolution calls made on the cache
    last_call,      \* the last read operation made and what it returned
    category_patterns,  \* ErrorCategorizer: category -> compiled patterns
    category_order,     \* the iteration order of the category_patterns map
    category_index,     \* MemoryEngine: category -> SolutionCache
    total_lookups,      \* MemoryEngine counters
    cache_hits,
    total_lookup_time_us,
    n_calls,        \* history: engine calls and clock advances made
    tracked,        \* history: the last storeSolution(p1, c, s, false) per c
    now_ms,             \* the milliseconds of the clock within the second now
    search_aggregates,  \* DomainMemoryEngine: session id -> SearchSessionAggregate
    session,            \* a SearchSessionAggregate held by a caller of create()
    event_queue,        \* EventBus: the events published, oldest first
    n_session_calls,    \* history: session calls made
    domain_call,        \* history: the last DomainMemoryEngine call and its result
    memory_aggregates,  \* DomainMemoryEngine: entry id -> MemoryEntryAggregate
    entry,              \* a MemoryEntryAggregate held by a caller of create()
    drained,            \* history: what getUncommittedEvents() returned for entry
    handlers,           \* EventBus: event type -> handlers, in subscription order
    running,            \* EventBus: the running flag
    processor_thread,   \* EventBus: the worker the thread handle stands for, or 0
    queue_mutex,        \* EventBus: the thread that holds the queue mutex, or ""
    queue_cv,           \* EventBus: the workers blocked on the condition variable
    worker,             \* worker id -> where that consumer thread is
    caller,             \* thread -> where it is in its start(), stop() or publish()
    terminated,         \* why the process was terminated, or ""
    delivered,          \* history: the handler invocations made, oldest first
    published,          \* history: the events passed to publish(), oldest first
    n_bus_calls,        \* history: start() and stop() calls made
    thread,             \* thread -> where it is in its DomainMemoryEngine call
    domain_mutex,       \* DomainMemoryEngine: the thread holding the lock, or ""
    reply,              \* the last call made on the categorizer or the ranked
                        \* path, its arguments and what it returned
    loaded,             \* history: the argument of the last loadCategories
    answers,            \* history: message -> what categorize returned for it
                        \* since the last loadCategories
    task,               \* thread -> where it is in its engine call
    patterns_mutex,     \* ErrorCategorizer: who holds the shared_mutex
    engine_mutex,       \* MemoryEngine: who holds the shared_mutex
    cache_mutex,        \* category -> who holds that SolutionCache's shared_mutex
    domain_readers,     \* DomainMemoryEngine: the threads holding a shared lock
    sets,               \* history: the pattern sets loaded completely, in order
    n_ops               \* history: calls begun by the threads

cache_vars == <<now, cache, inserted, n_adds, last_call>>
engine_vars == <<category_patterns, category_order, category_index,
                 total_lookups, cache_hits, total_lookup_time_us,
                 n_calls, tracked>>
entry_vars == <<memory_aggregates, entry, drained>>
thread_vars == <<thread, domain_mutex>>
lock_vars == <<task, patterns_mutex, engine_mutex, cache_mutex, domain_readers,
               sets, n_ops>>
call_vars == <<reply, loaded, answers, lock_vars>>
domain_state == <<now_ms, search_aggregates, session, event_queue,
                  n_session_calls, domain_call, entry_vars, thread_vars>>
session_vars == <<domain_state, call_vars>>
bus_vars == <<handlers, running, processor_thread, queue_mutex, queue_cv,
              worker, caller, terminated, delivered, published, n_bus_calls>>
vars == <<cache_vars, engine_vars, session_vars, bus_vars>>

-----------------------------------------------------------------------------
(* Units and program constants                                             *)

HOUR == 3600
DAY == 24 * HOUR

\* memory_engine.cpp:18  size() > 5
MaxSolutionsPerProblem == 5
\* memory_engine.cpp:66  hours(24 * 30)
RecentProjectDays == 30
\* memory_engine.cpp:74  age_diff > 90
AgeDiffDays == 90
\* memory_engine.cpp:47  hours(24 * 180)
GlobalMaxAgeDays == 180
\* memory_engine.cpp:85  use_ratio > 3.0
UseRatio == 3

\* The clock value the model starts at (400 days after the epoch, so that
\* solutions up to 211 days old have non-negative dates).
NowBase == 400 * DAY

-----------------------------------------------------------------------------
(* Bounds of the model                                                     *)

\* addSolution calls in the cap specification (the 6th insert evicts)
MaxCapAdds == 6
\* addSolution calls in the conflict-resolution specification
MaxResolveAdds == 2
\* seconds the clock may advance in the conflict-resolution specification
MaxAdvance == 1
\* addSolution calls in the lookup-history specification
MaxHistoryAdds == 3
\* storeSolution, loadSolutions and findSolution calls and clock advances in
\* the engine specification
MaxEngineCalls == 4
\* microseconds the engine accumulates between two clear()
MaxLookupTime == 1
\* publish() calls in the bus specifications
MaxPublished == 2
\* start() and stop() calls in the bus specifications
MaxBusCalls == 3
\* subscribe() calls in the bus specifications
MaxSubscriptions == 2
\* DomainMemoryEngine calls of one thread
MaxDomainCalls == 3
\* DomainMemoryEngine calls of the threads together, initializeDomain() included
MaxThreadOps == 4
\* calls of loadCategories and categorize begun by the threads
MaxCategorizerOps == 4
\* calls on the engine begun by the threads
MaxEngineThreadOps == 4
\* calls that change the engine in the specification of the ranked path
MaxRankedCalls == 3
\* calls of storeSolution before getSuggestions
MaxSuggestCalls == 6
\* calls on search sessions in the session specification
MaxSessionCalls == 4
\* milliseconds the clock advances in the session specification
MaxSessionMs == 1

-----------------------------------------------------------------------------
(* Helpers: std::to_string, std::stoll, duration_cast, containers          *)

RECURSIVE to_string(_)
to_string(n) ==
    IF n < 10 THEN <<n>> ELSE Append(to_string(n \div 10), n % 10)

RECURSIVE stoll(_)
stoll(s) ==
    IF Len(s) = 0 THEN 0
    ELSE stoll(SubSeq(s, 1, Len(s) - 1)) * 10 + s[Len(s)]

\* integer division of C++: the quotient is truncated toward zero
TruncDiv(a, b) ==
    IF a >= 0 THEN a \div b ELSE -((-a) \div b)

\* duration_cast<std::chrono::hours>(d).count() for d in seconds
duration_cast_hours(d) == TruncDiv(d, HOUR)

abs(x) == IF x < 0 THEN -x ELSE x

back(v) == v[Len(v)]

\* std::unordered_map<K, std::vector<V>>: a function on the keys present
EmptyMap == << >>

find(m, k) == k \in DOMAIN m

\* m[k] of C++: the value at k, default-constructed (empty) when absent
at(m, k) == IF k \in DOMAIN m THEN m[k] ELSE <<>>

\* mutant: emplace, which keeps the value a key already has
put_if_absent(m, k, v) ==
    [q \in (DOMAIN m) \cup {k} |-> IF q \in DOMAIN m THEN m[q] ELSE v]

put(m, k, v) == [q \in (DOMAIN m) \cup {k} |-> IF q = k THEN v ELSE m[q]]

-----------------------------------------------------------------------------
(* Solution, ConflictResult                                                *)

\* Solution(content, source): use_count 1, created_date = to_string(time_t now)
Solution(content, source, t) ==
    [content |-> content, created_date |-> to_string(t),
     use_count |-> 1, source |-> source]

RECENT_PROJECT_PRIORITY == "recent_project_priority"
NEWER_SOLUTION == "newer_solution"
POPULARITY_BASED == "popularity_based"
DEFAULT_LOCAL_PREFERENCE == "default_local_preference"

NoSolution == [content |-> "", created_date |-> <<>>, use_count |-> 0, source |-> ""]

\* a null std::unique_ptr<ConflictResult>
nullptr == [found |-> FALSE, solution |-> NoSolution, strategy |-> "", reason |-> <<>>]

ConflictResult(sol, strat, reason) ==
    [found |-> TRUE, solution |-> sol, strategy |-> strat, reason |-> reason]

-----------------------------------------------------------------------------
(* SolutionCache                                                           *)

EmptyCache == [project_solutions |-> EmptyMap, global_solutions |-> EmptyMap]

\* mutant: the newest entry is dropped instead of the oldest (pop_back)
EvictNewest(v) ==
    IF Len(v) > MaxSolutionsPerProblem THEN SubSeq(v, 1, Len(v) - 1) ELSE v

\* the eviction of addSolution: erase(begin()) once the size exceeds 5
EvictOldest(v) ==
    IF Len(v) > MaxSolutionsPerProblem THEN SubSeq(v, 2, Len(v)) ELSE v

SolutionCache_addSolution(c, problem, solution, is_global) ==
    IF is_global
    THEN [c EXCEPT !.global_solutions =
            put(@, problem, EvictOldest(Append(at(@, problem), solution)))]
    ELSE [c EXCEPT !.project_solutions =
            put(@, problem, EvictOldest(Append(at(@, problem), solution)))]

has_solutions(m, problem) == find(m, problem) /\ m[problem] # <<>>

\* mutant: the lone project solution is tagged with the wrong strategy
OnlyProjectAsRecent(latest) ==
    ConflictResult(latest, RECENT_PROJECT_PRIORITY,
                   <<"Only project solution available">>)

\* only the project scope holds the key
OnlyProject(latest) ==
    ConflictResult(latest, DEFAULT_LOCAL_PREFERENCE,
                   <<"Only project solution available">>)

\* mutant: a global solution exactly 180 days old still counts as recent
OnlyGlobalInclusive(latest, t) ==
    LET six_months_ago == t - (24 * GlobalMaxAgeDays) * HOUR
        created_time == stoll(latest.created_date)
    IN  IF created_time >= six_months_ago
        THEN ConflictResult(latest, DEFAULT_LOCAL_PREFERENCE,
                            <<"Only recent global solution available">>)
        ELSE nullptr

\* only the global scope holds the key: recent enough (within 6 months)?
OnlyGlobal(latest, t) ==
    LET six_months_ago == t - (24 * GlobalMaxAgeDays) * HOUR
        created_time == stoll(latest.created_date)
    IN  IF created_time > six_months_ago
        THEN ConflictResult(latest, DEFAULT_LOCAL_PREFERENCE,
                            <<"Only recent global solution available">>)
        ELSE nullptr

\* mutant: the limit is 30 hours, not 24 * 30 hours
Rule1FiresHours(project_time, t) ==
    LET thirty_days_ago == t - RecentProjectDays * HOUR
    IN  project_time > thirty_days_ago

\* Rule 1: project solutions < 30 days always win
Rule1Fires(project_time, t) ==
    LET thirty_days_ago == t - (24 * RecentProjectDays) * HOUR
    IN  project_time > thirty_days_ago

\* mutant: the std::abs is missing
age_diff_signed(project_time, global_time) ==
    TruncDiv(duration_cast_hours(project_time - global_time), 24)

\* Rule 2: age difference in days, from the difference in whole hours
age_diff(project_time, global_time) ==
    abs(duration_cast_hours(project_time - global_time)) \div 24

Rule2Fires(project_time, global_time) ==
    age_diff(project_time, global_time) > AgeDiffDays

newer_solution(project_solution, global_solution, project_time, global_time) ==
    IF project_time > global_time THEN project_solution ELSE global_solution

\* mutant: a ratio of exactly 3 fires the rule
Rule3FiresAtLeast(project_count, global_count) ==
    LET hi == IF project_count > global_count THEN project_count ELSE global_count
        lo == IF project_count < global_count THEN project_count ELSE global_count
    IN  IF lo = 0 THEN hi > 0 ELSE hi >= UseRatio * lo

\* Rule 3: double(max) / double(min) > 3.0.  For int operands the quotient
\* exceeds 3.0 exactly when max > 3 * min (min > 0), and a zero divisor
\* gives +inf (max > 0) or NaN (0/0), which compare > 3.0 as TRUE and FALSE.
Rule3Fires(project_count, global_count) ==
    LET hi == IF project_count > global_count THEN project_count ELSE global_count
        lo == IF project_count < global_count THEN project_count ELSE global_count
    IN  IF lo = 0 THEN hi > 0 ELSE hi > UseRatio * lo

\* mutant: the comparison is inverted, the less used solution is chosen
less_popular_solution(project_solution, global_solution) ==
    IF project_solution.use_count < global_solution.use_count
    THEN project_solution ELSE global_solution

popular_solution(project_solution, global_solution) ==
    IF project_solution.use_count > global_solution.use_count
    THEN project_solution ELSE global_solution

\* both scopes hold the key: rules 1 to 4, in order
ResolveConflict(project_solution, global_solution, t) ==
    LET project_time == stoll(project_solution.created_date)
        global_time == stoll(global_solution.created_date)
    IN  IF Rule1Fires(project_time, t)
        THEN ConflictResult(project_solution, RECENT_PROJECT_PRIORITY,
                            <<"Recent project solution takes priority">>)
        ELSE IF Rule2Fires(project_time, global_time)
        THEN ConflictResult(
                newer_solution(project_solution, global_solution,
                               project_time, global_time),
                NEWER_SOLUTION,
                <<"Newer solution chosen (age difference: ",
                  age_diff(project_time, global_time), " days)">>)
        ELSE IF Rule3Fires(project_solution.use_count, global_solution.use_count)
        THEN ConflictResult(
                popular_solution(project_solution, global_solution),
                POPULARITY_BASED,
                <<"Popular solution chosen (use counts: project=",
                  project_solution.use_count, ", global=",
                  global_solution.use_count, ")">>)
        ELSE ConflictResult(project_solution, DEFAULT_LOCAL_PREFERENCE,
                            <<"Default local preference">>)

\* mutant: front() instead of back()
oldest_of(v) == v[1]

\* the candidate findSolution takes from a scope: the last element
latest_of(v) == back(v)

SolutionCache_findSolution(c, problem, t) ==
    LET has_project == has_solutions(c.project_solutions, problem)
        has_global == has_solutions(c.global_solutions, problem)
    IN  IF ~has_project /\ ~has_global THEN nullptr
        ELSE IF has_project /\ ~has_global
        THEN OnlyProject(latest_of(c.project_solutions[problem]))
        ELSE IF has_global /\ ~has_project
        THEN OnlyGlobal(latest_of(c.global_solutions[problem]), t)
        ELSE ResolveConflict(latest_of(c.project_solutions[problem]),
                             latest_of(c.global_solutions[problem]), t)

SolutionCache_getAllSolutions(c, problem) ==
    at(c.project_solutions, problem) \o at(c.global_solutions, problem)

SolutionCache_clear(c) == EmptyCache

-----------------------------------------------------------------------------
(* Inputs                                                                  *)

Problems == {"p1", "p2"}
ScopeTag(is_global) == IF is_global THEN "global" ELSE "project"

\* contents of the cap specification: the n-th insert carries the n-th text
Contents == <<"s1", "s2", "s3", "s4", "s5", "s6", "s7", "s8">>
ContentOf(n) == Contents[((n - 1) % Len(Contents)) + 1]

\* ages (at NowBase) of the solutions of the conflict-resolution specification:
\* a fresh one, the 30-day and 180-day limits and one second inside them, and
\* dates 90 days, one second less than 91 days, and 91 days older than the
\* 120-day one
ResolveAges ==
    { DAY, 30 * DAY - 1, 30 * DAY, 120 * DAY, 140 * DAY, 180 * DAY - 1,
      200 * DAY, 210 * DAY, 211 * DAY - 1, 211 * DAY }
ResolveUseCounts == {1, 3, 4}

ResolveSolutions(is_global) ==
    { [content |-> "fix", created_date |-> to_string(NowBase - a),
       use_count |-> u, source |-> ScopeTag(is_global)] :
      a \in ResolveAges, u \in ResolveUseCounts }

-----------------------------------------------------------------------------
(* Actions on one SolutionCache                                            *)

NoCall == [op |-> "none", problem |-> "", category |-> "",
           result |-> nullptr, all |-> <<>>]

EmptyHistory == [k \in BOOLEAN \X Problems |-> <<>>]

CacheInit ==
    /\ now = NowBase
    /\ cache = EmptyCache
    /\ inserted = EmptyHistory
    /\ n_adds = 0
    /\ last_call = NoCall

AddSolution(problem, solution, is_global) ==
    /\ cache' = SolutionCache_addSolution(cache, problem, solution, is_global)
    /\ inserted' = [inserted EXCEPT ![<<is_global, problem>>] = Append(@, solution)]
    /\ n_adds' = n_adds + 1
    /\ last_call' = NoCall
    /\ UNCHANGED <<now, engine_vars, session_vars, bus_vars>>

FindSolution(problem) ==
    /\ last_call' = [op |-> "findSolution", problem |-> problem, category |-> "",
                     result |-> SolutionCache_findSolution(cache, problem, now),
                     all |-> <<>>]
    /\ UNCHANGED <<now, cache, inserted, n_adds, engine_vars, session_vars, bus_vars>>

GetAllSolutions(problem) ==
    /\ last_call' = [op |-> "getAllSolutions", problem |-> problem, category |-> "",
                     result |-> nullptr,
                     all |-> SolutionCache_getAllSolutions(cache, problem)]
    /\ UNCHANGED <<now, cache, inserted, n_adds, engine_vars, session_vars, bus_vars>>

Clear ==
    /\ cache' = SolutionCache_clear(cache)
    /\ inserted' = EmptyHistory
    /\ last_call' = NoCall
    /\ UNCHANGED <<now, n_adds, engine_vars, session_vars, bus_vars>>

Tick(d) ==
    /\ now' = now + d
    /\ last_call' = NoCall
    /\ UNCHANGED <<cache, inserted, n_adds, engine_vars, session_vars, bus_vars>>

\* --- the cap specification: many inserts of distinguishable solutions
-----------------------------------------------------------------------------
(* AggregateRoot and SearchSessionAggregate                                *)

\* a system_clock::time_point: the second and the millisecond within it
time_point(sec, ms) == [sec |-> sec, ms |-> ms]
epoch == time_point(0, 0)
count_ms(from, to) == (to.sec - from.sec) * 1000 + (to.ms - from.ms)

\* std::to_string of the milliseconds since the epoch
pad3(ms) == <<ms \div 100, (ms \div 10) % 10, ms % 10>>
to_string_ms(t) == to_string(t.sec) \o pad3(t.ms)

\* DomainEvent's constructor; its id is sixteen random hex digits that no
\* code reads, and is left out
DomainEvent(agg_id, type, data, t) ==
    [aggregate_id |-> agg_id, event_type |-> type, event_data |-> data,
     timestamp |-> t, version |-> 1]

\* SearchSessionAggregate's constructor: version 0 from AggregateRoot, and
\* completed_at left at the epoch. raised lists the types of the events the
\* aggregate has raised, oldest first (history)
SearchSessionAggregate(session_id, search_query, t) ==
    [id |-> session_id, version |-> 0, uncommitted_events |-> <<>>,
     query |-> search_query, layers_used |-> <<>>, result_ids |-> <<>>,
     started_at |-> t, completed_at |-> epoch, final_confidence |-> 0,
     session_status |-> "active", raised |-> <<>>, stream |-> <<>>]

\* MemoryEntryAggregate's constructor; stream lists the events the aggregate
\* has raised, oldest first (history)
MemoryEntryAggregate(entry_id, prob, sol, cat, t) ==
    [id |-> entry_id, version |-> 0, uncommitted_events |-> <<>>,
     problem |-> prob, solution |-> sol, category |-> cat,
     created_at |-> t, updated_at |-> t, confidence_score |-> 0,
     conflict_ids |-> <<>>, stream |-> <<>>]

Contains(v, x) == \E i \in DOMAIN v : v[i] = x

applyEvent(agg, event) ==
    CASE event.event_type = "SearchSessionStarted" -> agg
      [] event.event_type = "LayerAdded" ->
            IF Contains(agg.layers_used, event.event_data.layer_type) THEN agg
            ELSE [agg EXCEPT !.layers_used = Append(@, event.event_data.layer_type)]
      [] event.event_type = "ResultAdded" ->
            IF Contains(agg.result_ids, event.event_data.result_id) THEN agg
            ELSE [agg EXCEPT !.result_ids = Append(@, event.event_data.result_id)]
      [] event.event_type = "SearchSessionCompleted" ->
            [agg EXCEPT !.session_status = "completed",
                        !.final_confidence = event.event_data.final_confidence,
                        !.completed_at = event.timestamp]
      [] event.event_type = "SearchSessionFailed" ->
            [agg EXCEPT !.session_status = "failed",
                        !.completed_at = event.timestamp]
      [] OTHER -> agg

MemoryEntryAggregate_applyEvent(agg, event) ==
    CASE event.event_type = "MemoryEntryCreated" -> agg
      [] event.event_type = "MemoryEntryUpdated" ->
            [agg EXCEPT !.solution = event.event_data.new_solution,
                        !.updated_at = event.timestamp]
      [] event.event_type = "ConflictDetected" ->
            IF Contains(agg.conflict_ids, event.event_data.conflict_id) THEN agg
            ELSE [agg EXCEPT !.conflict_ids = Append(@, event.event_data.conflict_id)]
      [] event.event_type = "ConfidenceUpdated" ->
            [agg EXCEPT !.confidence_score = event.event_data.new_confidence]
      [] OTHER -> agg

\* the applyEvent of the aggregate's class
IsMemoryEntry(agg) == "problem" \in DOMAIN agg

virtual_applyEvent(agg, event) ==
    IF IsMemoryEntry(agg) THEN MemoryEntryAggregate_applyEvent(agg, event)
    ELSE applyEvent(agg, event)

\* the history fields of an aggregate after it raised the event
Raised(agg, event) ==
    IF IsMemoryEntry(agg) THEN [agg EXCEPT !.stream = Append(@, event)]
    ELSE [agg EXCEPT !.stream = Append(@, event),
                     !.raised = Append(@, event.event_type)]

\* mutant: the event keeps the version its constructor gave it
raiseEvent_unversioned(agg, event_type, event_data, t) ==
    LET event == DomainEvent(agg.id, event_type, event_data, t)
    IN  virtual_applyEvent(
            [Raised(agg, event) EXCEPT !.version = @ + 1,
                                       !.uncommitted_events = Append(@, event)],
            event)

raiseEvent(agg, event_type, event_data, t) ==
    LET event == [DomainEvent(agg.id, event_type, event_data, t)
                     EXCEPT !.version = agg.version + 1]
    IN  virtual_applyEvent(
            [Raised(agg, event) EXCEPT !.version = @ + 1,
                                       !.uncommitted_events = Append(@, event)],
            event)

\* mutant: the list is copied out and kept
getUncommittedEvents_kept(agg) ==
    [events |-> agg.uncommitted_events, aggregate |-> agg]

\* getUncommittedEvents moves the list out and leaves it empty
getUncommittedEvents(agg) ==
    [events |-> agg.uncommitted_events,
     aggregate |-> [agg EXCEPT !.uncommitted_events = <<>>]]

markEventsAsCommitted(agg) == [agg EXCEPT !.uncommitted_events = <<>>]

SearchSessionAggregate_create(query, t) ==
    LET aggregate == SearchSessionAggregate(<<"search_", to_string_ms(t)>>, query, t)
    IN  raiseEvent(aggregate, "SearchSessionStarted",
                   [query |-> query, started_at |-> aggregate.started_at.sec], t)

addLayer(agg, layer_type, t) ==
    LET pushed == [agg EXCEPT !.layers_used = Append(@, layer_type)]
    IN  raiseEvent(pushed, "LayerAdded",
                   [layer_type |-> layer_type,
                    layer_order |-> Len(pushed.layers_used)], t)

addResult(agg, result_id, confidence, t) ==
    LET pushed == [agg EXCEPT !.result_ids = Append(@, result_id)]
    IN  raiseEvent(pushed, "ResultAdded",
                   [result_id |-> result_id, confidence |-> confidence,
                    total_results |-> Len(pushed.result_ids)], t)

complete(agg, final_conf, t) ==
    LET done == [agg EXCEPT !.session_status = "completed",
                            !.final_confidence = final_conf,
                            !.completed_at = t]
    IN  raiseEvent(done, "SearchSessionCompleted",
                   [final_confidence |-> final_conf,
                    duration_ms |-> count_ms(done.started_at, done.completed_at),
                    layers_used |-> Len(done.layers_used),
                    results_found |-> Len(done.result_ids)], t)

fail(agg, reason, t) ==
    LET done == [agg EXCEPT !.session_status = "failed", !.completed_at = t]
    IN  raiseEvent(done, "SearchSessionFailed",
                   [reason |-> reason,
                    duration_ms |-> count_ms(done.started_at, done.completed_at)], t)

\* mutant: the problem and the solution change places
MemoryEntryAggregate_create_swapped(problem, solution, category, t) ==
    LET aggregate == MemoryEntryAggregate(<<"mem_", to_string_ms(t)>>,
                                          solution, problem, category, t)
    IN  raiseEvent(aggregate, "MemoryEntryCreated",
                   [problem |-> problem, solution |-> solution,
                    category |-> category], t)

MemoryEntryAggregate_create(problem, solution, category, t) ==
    LET aggregate == MemoryEntryAggregate(<<"mem_", to_string_ms(t)>>,
                                          problem, solution, category, t)
    IN  raiseEvent(aggregate, "MemoryEntryCreated",
                   [problem |-> problem, solution |-> solution,
                    category |-> category], t)

\* mutant: the event is raised twice
updateSolution_twice(agg, new_solution, reason, t) ==
    LET data == [old_solution |-> agg.solution, new_solution |-> new_solution,
                 reason |-> reason]
        replaced == [agg EXCEPT !.solution = new_solution, !.updated_at = t]
    IN  raiseEvent(raiseEvent(replaced, "MemoryEntryUpdated", data, t),
                   "MemoryEntryUpdated", data, t)

updateSolution(agg, new_solution, reason, t) ==
    LET old_solution == agg.solution
        replaced == [agg EXCEPT !.solution = new_solution, !.updated_at = t]
    IN  raiseEvent(replaced, "MemoryEntryUpdated",
                   [old_solution |-> old_solution, new_solution |-> new_solution,
                    reason |-> reason], t)

addConflict(agg, conflict_id, strategy, t) ==
    LET pushed == [agg EXCEPT !.conflict_ids = Append(@, conflict_id)]
    IN  raiseEvent(pushed, "ConflictDetected",
                   [conflict_id |-> conflict_id, strategy |-> strategy,
                    total_conflicts |-> Len(pushed.conflict_ids)], t)

setConfidence(agg, score, t) ==
    LET old_score == agg.confidence_score
        scored == [agg EXCEPT !.confidence_score = score]
    IN  raiseEvent(scored, "ConfidenceUpdated",
                   [old_confidence |-> old_score, new_confidence |-> score], t)

-----------------------------------------------------------------------------
(* DomainMemoryEngine: search sessions                                     *)

\* EventBus::publish
publish_front(queue, event) == <<event>> \o queue
publish(queue, event) == Append(queue, event)

RECURSIVE publish_all(_, _, _)
publish_all(queue, events, i) ==
    IF i > Len(events) THEN queue
    ELSE publish_all(publish(queue, events[i]), events, i + 1)

\* commitAggregateEvents: the bus queue and the aggregate afterwards
commitAggregateEvents(agg, queue) ==
    LET events == getUncommittedEvents(agg)
    IN  [queue |-> publish_all(queue, events.events, 1),
         aggregate |-> markEventsAsCommitted(events.aggregate)]

\* --- inputs
Queries == {"q"}
LayerTypes == {"x", "y"}
ResultIds == {"r1"}
\* confidences, in hundredths
Confidences == {50, 90}
FailReasons == {"timeout"}
UnknownId == <<"search_", <<0>>>>

NoAggregate == [id |-> <<>>]
DomainThreads == {"t1", "t2"}
\* a thread outside any call
IdleThread == [pc |-> "idle", op |-> "", op_no |-> 0, aggregate |-> NoAggregate,
               events |-> <<>>, i |-> 0]
NoDomainCall == [op |-> "none", session_id |-> <<>>, returned |-> FALSE,
                 before |-> NoAggregate]

system_clock_now == time_point(now, now_ms)

SessionInit ==
    /\ now_ms = 0
    /\ memory_aggregates = EmptyMap
    /\ entry = NoAggregate
    /\ drained = [all |-> <<>>, last |-> <<>>, calls |-> 0]
    /\ search_aggregates = EmptyMap
    /\ session = NoAggregate
    /\ event_queue = <<>>
    /\ n_session_calls = 0
    /\ domain_call = NoDomainCall
    /\ thread = [t \in DomainThreads |-> IdleThread]
    /\ domain_mutex = ""

AggregateCall ==
    /\ n_session_calls < MaxSessionCalls
    /\ n_session_calls' = n_session_calls + 1
    /\ UNCHANGED <<cache_vars, engine_vars, bus_vars, thread_vars, call_vars>>

SessionCall == AggregateCall /\ UNCHANGED entry_vars

startSearchSession(query) ==
    LET aggregate == SearchSessionAggregate_create(query, system_clock_now)
        committed == commitAggregateEvents(aggregate, event_queue)
    IN  /\ SessionCall
        /\ event_queue' = committed.queue
        /\ search_aggregates' = put(search_aggregates, aggregate.id, committed.aggregate)
        /\ domain_call' = [op |-> "startSearchSession", session_id |-> aggregate.id,
                           returned |-> TRUE, before |-> NoAggregate]
        /\ UNCHANGED <<now_ms, session>>

\* a call on a stored session: the mutator, then the commit
OnSession(op, session_id, mutated) ==
    /\ SessionCall
    /\ IF find(search_aggregates, session_id)
       THEN LET committed == commitAggregateEvents(mutated, event_queue)
            IN  /\ event_queue' = committed.queue
                /\ search_aggregates' = put(search_aggregates, session_id,
                                            committed.aggregate)
                /\ domain_call' = [op |-> op, session_id |-> session_id,
                                   returned |-> TRUE,
                                   before |-> search_aggregates[session_id]]
       ELSE /\ domain_call' = [op |-> op, session_id |-> session_id,
                               returned |-> FALSE, before |-> NoAggregate]
            /\ UNCHANGED <<event_queue, search_aggregates>>
    /\ UNCHANGED <<now_ms, session>>

addSearchLayer(session_id, layer_type) ==
    OnSession("addSearchLayer", session_id,
              IF find(search_aggregates, session_id)
              THEN addLayer(search_aggregates[session_id], layer_type, system_clock_now)
              ELSE NoAggregate)

completeSearchSession(session_id, confidence) ==
    OnSession("completeSearchSession", session_id,
              IF find(search_aggregates, session_id)
              THEN complete(search_aggregates[session_id], confidence, system_clock_now)
              ELSE NoAggregate)

\* calls on an aggregate a caller made with create() and holds itself
OnHeld(aggregate) ==
    /\ SessionCall
    /\ session' = aggregate
    /\ domain_call' = NoDomainCall
    /\ UNCHANGED <<now_ms, search_aggregates, event_queue>>

Create(query) ==
    /\ session = NoAggregate
    /\ OnHeld(SearchSessionAggregate_create(query, system_clock_now))

AddLayer(layer_type) ==
    /\ session # NoAggregate
    /\ OnHeld(addLayer(session, layer_type, system_clock_now))

AddResult(result_id, confidence) ==
    /\ session # NoAggregate
    /\ OnHeld(addResult(session, result_id, confidence, system_clock_now))

Complete(final_conf) ==
    /\ session # NoAggregate
    /\ OnHeld(complete(session, final_conf, system_clock_now))

Fail(reason) ==
    /\ session # NoAggregate
    /\ OnHeld(fail(session, reason, system_clock_now))

SessionTick ==
    /\ now_ms < MaxSessionMs
    /\ now_ms' = now_ms + 1
    /\ domain_call' = NoDomainCall
    /\ UNCHANGED <<search_aggregates, session, event_queue, n_session_calls,
                   entry_vars, cache_vars, engine_vars, bus_vars, thread_vars,
                   call_vars>>

SessionStart == \E query \in Queries : startSearchSession(query)

SessionAddSearchLayer ==
    \E session_id \in DOMAIN search_aggregates \cup {UnknownId},
       layer_type \in LayerTypes :
        addSearchLayer(session_id, layer_type)

SessionCompleteSearch ==
    \E session_id \in DOMAIN search_aggregates \cup {UnknownId},
       confidence \in Confidences :
        completeSearchSession(session_id, confidence)

SessionCreate == \E query \in Queries : Create(query)

SessionAddLayer == \E layer_type \in LayerTypes : AddLayer(layer_type)

SessionAddResult ==
    \E result_id \in ResultIds, confidence \in Confidences :
        AddResult(result_id, confidence)

SessionComplete == \E final_conf \in Confidences : Complete(final_conf)

SessionFail == \E reason \in FailReasons : Fail(reason)

\* calls on a MemoryEntryAggregate a caller made with create() and holds
OnHeldEntry(aggregate) ==
    /\ AggregateCall
    /\ entry' = aggregate
    /\ domain_call' = NoDomainCall
    /\ UNCHANGED <<now_ms, search_aggregates, session, event_queue,
                   memory_aggregates, drained>>

\* the holder calls getUncommittedEvents(); all is every event the calls
\* have returned, oldest first, last what this call returned
EntryGetUncommittedEvents ==
    /\ entry # NoAggregate
    /\ AggregateCall
    /\ LET moved == getUncommittedEvents(entry)
       IN  /\ entry' = moved.aggregate
           /\ drained' = [all |-> drained.all \o moved.events,
                          last |-> moved.events,
                          calls |-> drained.calls + 1]
    /\ domain_call' = NoDomainCall
    /\ UNCHANGED <<now_ms, search_aggregates, session, event_queue,
                   memory_aggregates>>

EntryProblems == {"p1"}
EntrySolutions == {"s1", "s2"}
EntryCategories == {"", "auth"}
ConflictIds == {"c1", "c2"}
ConflictStrategies == {"newer_solution"}
UpdateReasons == {"fix"}

EntryCreate ==
    /\ entry = NoAggregate
    /\ \E problem \in EntryProblems, category \in EntryCategories :
          OnHeldEntry(MemoryEntryAggregate_create(problem, "s1", category,
                                                  system_clock_now))

EntryUpdateSolution ==
    /\ entry # NoAggregate
    /\ \E new_solution \in EntrySolutions, reason \in UpdateReasons :
          OnHeldEntry(updateSolution(entry, new_solution, reason, system_clock_now))

EntryAddConflict ==
    /\ entry # NoAggregate
    /\ \E conflict_id \in ConflictIds, strategy \in ConflictStrategies :
          OnHeldEntry(addConflict(entry, conflict_id, strategy, system_clock_now))

EntrySetConfidence ==
    /\ entry # NoAggregate
    /\ \E score \in Confidences :
          OnHeldEntry(setConfidence(entry, score, system_clock_now))

\* --- the aggregate specification: one search session and one memory entry,
\* each held by its caller, under any sequence of mutators
AggregateNext ==
    \/ SessionCreate
    \/ SessionAddLayer
    \/ SessionAddResult
    \/ SessionComplete
    \/ SessionFail
    \/ EntryCreate
    \/ EntryUpdateSolution
    \/ EntryAddConflict
    \/ EntrySetConfidence
    \/ SessionTick

SessionNext ==
    \/ SessionStart
    \/ SessionAddSearchLayer
    \/ SessionCompleteSearch
    \/ SessionCreate
    \/ SessionAddLayer
    \/ SessionAddResult
    \/ SessionComplete
    \/ SessionFail
    \/ SessionTick

-----------------------------------------------------------------------------
(* EventBus                                                                *)
(* The bus is shared by the threads that call start(), stop() and          *)
(* publish() and by the consumer threads start() creates.  Every read or   *)
(* write of shared state is one step; a critical section under queue_mutex *)
(* that no other step can observe is one step.                             *)
Controllers == {"c1", "c2"}
Publishers == {"u1", "u2"}
BusEventTypes == {"A"}
\* what a subscribed handler does when invoked: return, throw an exception
\* derived from std::exception, or throw anything else
HandlerKinds == {"returns", "throws_exception", "throws_other"}
NoThread == 0
NoEvent == [event_type |-> ""]
Idle == "idle"

BusInit ==
    /\ handlers = EmptyMap
    /\ running = FALSE
    /\ processor_thread = NoThread
    /\ queue_mutex = NoThread
    /\ queue_cv = {}
    /\ worker = EmptyMap
    /\ caller = [t \in Controllers \cup Publishers |-> Idle]
    /\ terminated = ""
    /\ delivered = <<>>
    /\ published = <<>>
    /\ n_bus_calls = 0

domain_vars == <<now_ms, search_aggregates, session, n_session_calls,
                 domain_call, entry_vars, thread_vars, call_vars>>

\* a bus step leaves the cache, the engine and the domain stores alone, and
\* nothing runs once the process has been terminated
BusStep ==
    /\ terminated = ""
    /\ UNCHANGED <<cache_vars, engine_vars, domain_vars>>

Workers == DOMAIN worker
Live == {w \in Workers : worker[w].pc # "done"}
joinable == processor_thread # NoThread

at_pc(w, pc) == w \in Workers /\ worker[w].pc = pc
goto(w, pc) == [worker EXCEPT ![w].pc = pc]

\* subscribe(): handlers[event_type].push_back(handler) under the mutex
subscribe(table, event_type, handler) ==
    put(table, event_type,
        Append(IF event_type \in DOMAIN table THEN table[event_type] ELSE <<>>,
               handler))

subscriptions(table) ==
    LET RECURSIVE count(_)
        count(types) ==
            IF types = {} THEN 0
            ELSE LET t == CHOOSE x \in types : TRUE
                 IN Len(table[t]) + count(types \ {t})
    IN count(DOMAIN table)

\* subscriptions are made before the bus is started, as initializeDomain()
\* makes them
Subscribe(event_type, handler) ==
    /\ BusStep
    /\ Workers = {}
    /\ queue_mutex = NoThread
    /\ subscriptions(handlers) < MaxSubscriptions
    /\ handlers' = subscribe(handlers, event_type, handler)
    /\ UNCHANGED <<running, processor_thread, queue_mutex, queue_cv, worker,
                   caller, terminated, delivered, published, n_bus_calls,
                   event_queue>>

\* publish(): the push under the mutex
PublishPush(u, event_type) ==
    /\ BusStep
    /\ caller[u] = Idle
    /\ Len(published) < MaxPublished
    /\ queue_mutex = NoThread
    /\ LET event == DomainEvent(<<"bus">>, event_type,
                                [publisher |-> u, seq |-> Len(published) + 1],
                                system_clock_now)
       IN /\ published' = Append(published, event)
          /\ event_queue' = publish(event_queue, event)
    /\ caller' = [caller EXCEPT ![u] = "notify_one"]
    /\ UNCHANGED <<handlers, running, processor_thread, queue_mutex, queue_cv,
                   worker, terminated, delivered, n_bus_calls>>

\* publish(): queue_cv.notify_one() after the mutex is released
PublishNotify(u) ==
    /\ BusStep
    /\ caller[u] = "notify_one"
    /\ caller' = [caller EXCEPT ![u] = Idle]
    /\ IF queue_cv = {}
       THEN UNCHANGED <<queue_cv, worker>>
       ELSE \E w \in queue_cv :
               /\ queue_cv' = queue_cv \ {w}
               /\ worker' = goto(w, "woken")
    /\ UNCHANGED <<handlers, running, processor_thread, queue_mutex,
                   terminated, delivered, published, n_bus_calls, event_queue>>

\* start(): if (running.load()) return;
StartCheck(c) ==
    /\ BusStep
    /\ caller[c] = Idle
    /\ n_bus_calls < MaxBusCalls
    /\ n_bus_calls' = n_bus_calls + 1
    /\ caller' = [caller EXCEPT ![c] = IF running THEN Idle ELSE "start_store"]
    /\ UNCHANGED <<handlers, running, processor_thread, queue_mutex, queue_cv,
                   worker, terminated, delivered, published, event_queue>>

\* start(): running.store(true);
StartStore(c) ==
    /\ BusStep
    /\ caller[c] = "start_store"
    /\ running' = TRUE
    /\ caller' = [caller EXCEPT ![c] = "start_thread"]
    /\ UNCHANGED <<handlers, processor_thread, queue_mutex, queue_cv, worker,
                   terminated, delivered, published, n_bus_calls, event_queue>>

\* start(): std::thread(&EventBus::processEvents, this): the new thread runs
\* from its construction, held by a temporary of the caller
StartThread(c) ==
    /\ BusStep
    /\ caller[c] = "start_thread"
    /\ worker' = put(worker, Cardinality(Workers) + 1,
                     [pc |-> "check_running", event |-> NoEvent, idx |-> 0,
                      temporary_of |-> c])
    /\ caller' = [caller EXCEPT ![c] = "start_assign"]
    /\ UNCHANGED <<handlers, running, processor_thread, queue_mutex, queue_cv,
                   terminated, delivered, published, n_bus_calls, event_queue>>

\* start(): processor_thread = <the temporary>: move-assigning to a handle
\* that is still joinable calls std::terminate
StartAssign(c) ==
    /\ BusStep
    /\ caller[c] = "start_assign"
    /\ LET w == CHOOSE x \in Workers : worker[x].temporary_of = c
       IN /\ worker' = [worker EXCEPT ![w].temporary_of = ""]
          /\ IF joinable
             THEN terminated' = "thread_assign" /\ UNCHANGED processor_thread
             ELSE processor_thread' = w /\ UNCHANGED terminated
    /\ caller' = [caller EXCEPT ![c] = Idle]
    /\ UNCHANGED <<handlers, running, queue_mutex, queue_cv, delivered,
                   published, n_bus_calls, event_queue>>

\* stop(): if (!running.load()) return;
StopCheck(c) ==
    /\ BusStep
    /\ caller[c] = Idle
    /\ n_bus_calls < MaxBusCalls
    /\ n_bus_calls' = n_bus_calls + 1
    /\ caller' = [caller EXCEPT ![c] = IF running THEN "stop_store" ELSE Idle]
    /\ UNCHANGED <<handlers, running, processor_thread, queue_mutex, queue_cv,
                   worker, terminated, delivered, published, event_queue>>

\* stop(): running.store(false);
StopStore(c) ==
    /\ BusStep
    /\ caller[c] = "stop_store"
    /\ running' = FALSE
    /\ caller' = [caller EXCEPT ![c] = "stop_notify"]
    /\ UNCHANGED <<handlers, processor_thread, queue_mutex, queue_cv, worker,
                   terminated, delivered, published, n_bus_calls, event_queue>>

\* stop(): queue_cv.notify_all(); the mutex is not held
StopNotify(c) ==
    /\ BusStep
    /\ caller[c] = "stop_notify"
    /\ queue_cv' = {}
    /\ worker' = [w \in Workers |->
                    IF w \in queue_cv THEN [worker[w] EXCEPT !.pc = "woken"]
                    ELSE worker[w]]
    /\ caller' = [caller EXCEPT ![c] = "stop_joinable"]
    /\ UNCHANGED <<handlers, running, processor_thread, queue_mutex,
                   terminated, delivered, published, n_bus_calls, event_queue>>

\* stop(): if (processor_thread.joinable())
StopJoinable(c) ==
    /\ BusStep
    /\ caller[c] = "stop_joinable"
    /\ caller' = [caller EXCEPT ![c] = IF joinable THEN "stop_join" ELSE Idle]
    /\ UNCHANGED <<handlers, running, processor_thread, queue_mutex, queue_cv,
                   worker, terminated, delivered, published, n_bus_calls,
                   event_queue>>

\* stop(): processor_thread.join(); returns once the thread has finished.
\* join() on a handle another thread has joined meanwhile is unsynchronised
\* access to the handle: it returns, or it ends the process
StopJoin(c) ==
    /\ BusStep
    /\ caller[c] = "stop_join"
    /\ IF joinable
       THEN /\ at_pc(processor_thread, "done")
            /\ processor_thread' = NoThread
            /\ UNCHANGED terminated
       ELSE /\ terminated' \in {"", "join_not_joinable"}
            /\ UNCHANGED processor_thread
    /\ caller' = [caller EXCEPT ![c] = Idle]
    /\ UNCHANGED <<handlers, running, queue_mutex, queue_cv, worker, delivered,
                   published, n_bus_calls, event_queue>>

\* processEvents(): while (running.load())
WorkerCheckRunning(w) ==
    /\ BusStep
    /\ at_pc(w, "check_running")
    /\ worker' = goto(w, IF running THEN "lock" ELSE "done")
    /\ UNCHANGED <<handlers, running, processor_thread, queue_mutex, queue_cv,
                   caller, terminated, delivered, published, n_bus_calls,
                   event_queue>>

\* processEvents(): the unique_lock is taken: at the top of the loop, when a
\* woken wait() reacquires it, and by lock.lock() after the handlers
WorkerLock(w) ==
    /\ BusStep
    /\ w \in Workers
    /\ worker[w].pc \in {"lock", "woken", "relock"}
    /\ queue_mutex = NoThread
    /\ queue_mutex' = w
    /\ worker' = goto(w, IF worker[w].pc = "relock" THEN "drain" ELSE "wait_pred")
    /\ UNCHANGED <<handlers, running, processor_thread, queue_cv, caller,
                   terminated, delivered, published, n_bus_calls, event_queue>>

\* queue_cv.wait(lock, pred): the predicate is evaluated with the mutex held
WorkerWaitPred(w) ==
    /\ BusStep
    /\ at_pc(w, "wait_pred")
    /\ worker' = goto(w, IF event_queue # <<>> \/ ~running
                         THEN "drain" ELSE "about_to_block")
    /\ UNCHANGED <<handlers, running, processor_thread, queue_mutex, queue_cv,
                   caller, terminated, delivered, published, n_bus_calls,
                   event_queue>>

\* queue_cv.wait(lock, pred): the predicate was false; the thread releases
\* the mutex and blocks on the condition variable in one step
WorkerBlock(w) ==
    /\ BusStep
    /\ at_pc(w, "about_to_block")
    /\ queue_mutex' = NoThread
    /\ queue_cv' = queue_cv \cup {w}
    /\ worker' = goto(w, "waiting")
    /\ UNCHANGED <<handlers, running, processor_thread, caller, terminated,
                   delivered, published, n_bus_calls, event_queue>>

\* mutant: the handlers are run with queue_mutex held
WorkerDrain_locked(w) ==
    /\ BusStep
    /\ at_pc(w, "drain")
    /\ IF event_queue = <<>>
       THEN /\ worker' = goto(w, "check_running")
            /\ queue_mutex' = NoThread
            /\ UNCHANGED event_queue
       ELSE /\ worker' = [worker EXCEPT ![w].pc = "dispatch",
                                        ![w].event = Head(event_queue),
                                        ![w].idx = 1]
            /\ UNCHANGED queue_mutex
            /\ event_queue' = Tail(event_queue)
    /\ UNCHANGED <<handlers, running, processor_thread, queue_cv, caller,
                   terminated, delivered, published, n_bus_calls>>

\* while (!event_queue.empty()) { front(); pop(); lock.unlock(); ... }; on an
\* empty queue the lock goes out of scope and the outer loop comes round
WorkerDrain(w) ==
    /\ BusStep
    /\ at_pc(w, "drain")
    /\ queue_mutex' = NoThread
    /\ IF event_queue = <<>>
       THEN /\ worker' = goto(w, "check_running")
            /\ UNCHANGED event_queue
       ELSE /\ worker' = [worker EXCEPT ![w].pc = "dispatch",
                                        ![w].event = Head(event_queue),
                                        ![w].idx = 1]
            /\ event_queue' = Tail(event_queue)
    /\ UNCHANGED <<handlers, running, processor_thread, queue_cv, caller,
                   terminated, delivered, published, n_bus_calls>>

\* mutant: the loop leaves after the first handler
handlers_of_first(table, event_type) ==
    IF event_type \in DOMAIN table THEN SubSeq(table[event_type], 1, 1) ELSE <<>>

\* handlers.find(event.event_type): the vector of the type, none when absent
handlers_of(table, event_type) ==
    IF event_type \in DOMAIN table THEN table[event_type] ELSE <<>>

\* for (const auto& handler : it->second) try { handler(event); }
\* catch (const std::exception&) {}: one handler invocation.  An exception
\* that is not a std::exception leaves processEvents() and the thread
\* function, which calls std::terminate
WorkerDispatch(w) ==
    /\ BusStep
    /\ at_pc(w, "dispatch")
    /\ worker[w].idx <= Len(handlers_of(handlers, worker[w].event.event_type))
    /\ LET handler == handlers_of(handlers, worker[w].event.event_type)[worker[w].idx]
       IN /\ delivered' = Append(delivered,
                                 [handler |-> handler, idx |-> worker[w].idx,
                                  event |-> worker[w].event, worker |-> w])
          /\ terminated' = IF handler = "throws_other"
                           THEN "handler_exception" ELSE ""
    /\ worker' = [worker EXCEPT ![w].idx = @ + 1]
    /\ UNCHANGED <<handlers, running, processor_thread, queue_mutex, queue_cv,
                   caller, published, n_bus_calls, event_queue>>

\* the handler loop is over (or the type has no handlers): lock.lock() next
WorkerDispatched(w) ==
    /\ BusStep
    /\ at_pc(w, "dispatch")
    /\ worker[w].idx > Len(handlers_of(handlers, worker[w].event.event_type))
    /\ worker' = [worker EXCEPT ![w].pc = "relock", ![w].event = NoEvent,
                                ![w].idx = 0]
    /\ UNCHANGED <<handlers, running, processor_thread, queue_mutex, queue_cv,
                   caller, terminated, delivered, published, n_bus_calls,
                   event_queue>>

\* a wait on a condition variable may wake without a notification
SpuriousWake(w) ==
    /\ BusStep
    /\ w \in queue_cv
    /\ queue_cv' = queue_cv \ {w}
    /\ worker' = goto(w, "woken")
    /\ UNCHANGED <<handlers, running, processor_thread, queue_mutex, caller,
                   terminated, delivered, published, n_bus_calls, event_queue>>

WorkerStep(w) ==
    \/ WorkerCheckRunning(w)
    \/ WorkerLock(w)
    \/ WorkerWaitPred(w)
    \/ WorkerBlock(w)
    \/ WorkerDrain(w)
    \/ WorkerDispatch(w)
    \/ WorkerDispatched(w)

StartStep(c) ==
    StartCheck(c) \/ StartStore(c) \/ StartThread(c) \/ StartAssign(c)
StopStep(c) ==
    StopCheck(c) \/ StopStore(c) \/ StopNotify(c) \/ StopJoinable(c) \/ StopJoin(c)
PublishStep(u) == PublishNotify(u) \/ \E t \in BusEventTypes : PublishPush(u, t)

SubscribeAny == \E t \in BusEventTypes, h \in HandlerKinds : Subscribe(t, h)
Publish == \E u \in Publishers : PublishStep(u)
Start == StartStep("c1")
Stop == StopStep("c1")
StartAny == \E c \in Controllers : StartStep(c)
StopAny == \E c \in Controllers : StopStep(c)
Worker == \E w \in Workers : WorkerStep(w)
Spurious == \E w \in Workers : SpuriousWake(w)

\* one thread owns the bus and starts and stops it; any thread publishes
BusNext ==
    \/ SubscribeAny
    \/ Publish
    \/ Start
    \/ Stop
    \/ Worker
    \/ Spurious

\* start() and stop() are called from two threads, on a bus nothing has
\* subscribed to
BusRaceNext ==
    \/ Publish
    \/ StartAny
    \/ StopAny
    \/ Worker
    \/ Spurious

-----------------------------------------------------------------------------
(* ErrorCategorizer                                                        *)

UNCATEGORISED == "errors_uncategorised"

\* std::regex is outside the repository: a pattern is known by whether it
\* compiles and by the messages std::regex_search finds it in
regex_valid(pattern) == pattern # "("
regex_search(message, pattern) ==
    \/ pattern = "p1" /\ message = "p1"
    \/ pattern = "p2" /\ message = "p2"
    \/ pattern = "p" /\ message \in {"p1", "p2"}

\* the permutations of a finite set, as sequences
Perms(S) ==
    { f \in [1..Cardinality(S) -> S] : \A i, j \in DOMAIN f : i # j => f[i] # f[j] }

\* mutant: the first pattern that does not compile ends the category's list
ErrorCategorizer_loadCategories_break(categories) ==
    [c \in { k \in DOMAIN categories : categories[k] # <<>> } |->
        LET bad == { i \in DOMAIN categories[c] : ~regex_valid(categories[c][i]) }
            stop == IF bad = {} THEN Len(categories[c]) + 1
                    ELSE CHOOSE i \in bad : \A j \in bad : i <= j
        IN  SubSeq(categories[c], 1, stop - 1)]

\* loadCategories: operator[] makes the key, emplace_back keeps the pattern
\* unless compiling it throws; a category listed with no pattern gets no key
ErrorCategorizer_loadCategories(categories) ==
    [c \in { k \in DOMAIN categories : categories[k] # <<>> } |->
        SelectSeq(categories[c], regex_valid)]

RECURSIVE categorize_from(_, _, _, _)
categorize_from(patterns, order, i, error_message) ==
    IF i > Len(order) THEN UNCATEGORISED
    ELSE IF \E k \in DOMAIN patterns[order[i]] :
               regex_search(error_message, patterns[order[i]][k])
    THEN order[i]
    ELSE categorize_from(patterns, order, i + 1, error_message)

\* mutant: the first category of the map, whatever its patterns
ErrorCategorizer_categorize_first(patterns, order, error_message) ==
    IF order = <<>> THEN UNCATEGORISED ELSE order[1]

ErrorCategorizer_categorize(patterns, order, error_message) ==
    categorize_from(patterns, order, 1, error_message)

-----------------------------------------------------------------------------
(* MemoryEngine                                                            *)

categorizeError(error_message) ==
    ErrorCategorizer_categorize(category_patterns, category_order, error_message)

\* final_category of storeSolution and findSolution
final_category(problem, category) ==
    IF category = "" THEN categorizeError(problem) ELSE category

\* category_index[category], made on demand
cache_of(index, category) ==
    IF category \in DOMAIN index THEN index[category] ELSE EmptyCache

\* mutant: the solution goes to the map of the other scope
MemoryEngine_storeSolution_otherScope(index, problem, category, solution_content, is_global, t) ==
    put(index, category,
        SolutionCache_addSolution(cache_of(index, category), problem,
            Solution(solution_content, ScopeTag(is_global), t), ~is_global))

\* storeSolution on the index, category being the final category
MemoryEngine_storeSolution(index, problem, category, solution_content, is_global, t) ==
    put(index, category,
        SolutionCache_addSolution(cache_of(index, category), problem,
            Solution(solution_content, ScopeTag(is_global), t), is_global))

MemoryEngine_findSolution(index, problem, category, t) ==
    IF category \in DOMAIN index
    THEN SolutionCache_findSolution(index[category], problem, t)
    ELSE nullptr

RECURSIVE add_all(_, _, _, _)
add_all(c, solutions, keys, is_global) ==
    IF keys = {} THEN c
    ELSE LET problem == CHOOSE k \in keys : TRUE
         IN  add_all(SolutionCache_addSolution(c, problem, solutions[problem], is_global),
                     solutions, keys \ {problem}, is_global)

\* loadSolutions: the keys of the map are distinct, so the order in which the
\* map is walked does not show in the result
MemoryEngine_loadSolutions(index, category, solutions, is_global) ==
    put(index, category,
        add_all(cache_of(index, category), solutions, DOMAIN solutions, is_global))

-----------------------------------------------------------------------------
(* SolutionScorer.  A score is held in thousandths, the combined score in  *)
(* hundred-thousandths, so that the weights 0.25, 0.20 and 0.15 are whole. *)
(* A text is known by its length, by the substrings the scorer looks for   *)
(* that std::string::find finds in it (marks), and by the words of the     *)
(* problem found in its lower-cased copy (words).  A problem context is    *)
(* known by its white-space separated words and by its marks.              *)

ONE == 1000

\* the texts the content names of the model stand for
Text(content) ==
    CASE content = "long" -> [length |-> 200, marks |-> {}, words |-> {}]
      [] content = "medium" -> [length |-> 50, marks |-> {}, words |-> {}]
      [] content = "short" -> [length |-> 5, marks |-> {}, words |-> {}]
      [] content = "npm install" -> [length |-> 11, marks |-> {"npm"}, words |-> {}]
      [] OTHER -> [length |-> 2, marks |-> {}, words |-> {}]

\* the problem keys of the model are two characters long: one word, no mark
ProblemContext(problem) ==
    [words |-> << [word |-> problem, length |-> 2] >>, marks |-> {}]

\* the marks for three backticks and for the line feed
FENCE == "fence"
NEWLINE == "newline"

\* content.find(needle) != std::string::npos
contains(text, needle) == needle \in text.marks

std_min(a, b) == IF b < a THEN b ELSE a
std_max(a, b) == IF a < b THEN b ELSE a
bonus(cond, amount) == IF cond THEN amount ELSE 0

scoreCompleteness(text) ==
    std_min(ONE,
        bonus(text.length > 20, 300) + bonus(text.length > 100, 200)
        + bonus(contains(text, FENCE), 200)
        + bonus(contains(text, "npm") \/ contains(text, "yarn"), 100)
        + bonus(contains(text, "1.") \/ contains(text, "2."), 200))

scoreClarity(text) ==
    std_max(0, std_min(ONE,
        500 - bonus(text.length < 10, 300)
        + bonus(contains(text, NEWLINE), 100) + bonus(contains(text, "- "), 100)
        + bonus(contains(text, "need to") \/ contains(text, "should")
                \/ contains(text, "try"), 200)
        - bonus(contains(text, "maybe") \/ contains(text, "not sure"), 200)))

\* the words of the problem longer than three characters
total_terms(context) ==
    Cardinality({ i \in DOMAIN context.words : context.words[i].length > 3 })

matched_terms(text, context) ==
    Cardinality({ i \in DOMAIN context.words :
                    /\ context.words[i].length > 3
                    /\ context.words[i].word \in text.words })

\* (double)matched_terms / total_terms * 0.6, exact for the contexts of the
\* model (their numbers of terms divide 600)
scoreSpecificity(text, context) ==
    std_min(ONE,
        200
        + (IF total_terms(context) > 0
           THEN (matched_terms(text, context) * 600) \div total_terms(context)
           ELSE 0)
        + bonus(contains(text, "config") \/ contains(text, ".json")
                \/ contains(text, "package.json"), 200))

\* duration_cast<hours>(now - created_time).count() / 24
age_days(solution, t) ==
    TruncDiv(duration_cast_hours(t - stoll(solution.created_date)), 24)

\* mutant: the result is not clamped from above
scoreReliability_unclamped(solution, t) ==
    std_max(0,
        500
        + (IF age_days(solution, t) < 30 THEN 300
           ELSE IF age_days(solution, t) < 90 THEN 200
           ELSE IF age_days(solution, t) < 180 THEN 100
           ELSE IF age_days(solution, t) > 365 THEN -200
           ELSE 0)
        + bonus(solution.use_count > 1, 100)
        + bonus(solution.use_count > 3, 100)
        + bonus(solution.use_count > 5, 100))

scoreReliability(solution, t) ==
    std_max(0, std_min(ONE,
        500
        + (IF age_days(solution, t) < 30 THEN 300
           ELSE IF age_days(solution, t) < 90 THEN 200
           ELSE IF age_days(solution, t) < 180 THEN 100
           ELSE IF age_days(solution, t) > 365 THEN -200
           ELSE 0)
        + bonus(solution.use_count > 1, 100)
        + bonus(solution.use_count > 3, 100)
        + bonus(solution.use_count > 5, 100)))

scoreContextRelevance(text, context) ==
    std_min(ONE,
        300
        + bonus(\/ "npm" \in context.marks /\ contains(text, "npm")
                \/ "node" \in context.marks /\ contains(text, "node"), 300)
        + bonus(\/ "auth" \in context.marks /\ contains(text, "auth")
                \/ "OAuth" \in context.marks /\ contains(text, "OAuth"), 400))

getDetailedMetrics(text, context) ==
    [completeness_score |-> scoreCompleteness(text),
     clarity_score |-> scoreClarity(text),
     specificity_score |-> scoreSpecificity(text, context),
     context_relevance |-> scoreContextRelevance(text, context),
     reliability_score |-> 500]

\* the metrics scoreSolution combines: reliability_score is overridden
metrics_of(solution, text, context, t) ==
    [getDetailedMetrics(text, context) EXCEPT
        !.reliability_score = scoreReliability(solution, t)]

combined_score(metrics) ==
    metrics.completeness_score * 25 + metrics.clarity_score * 20
    + metrics.specificity_score * 25 + metrics.reliability_score * 15
    + metrics.context_relevance * 15

scoreSolution(solution, text, context, t) ==
    combined_score(metrics_of(solution, text, context, t))

\* --- inputs
CategoryConfigs ==
    { [c \in {"auth", "net", "none"} |->
          IF c = "auth" THEN <<"(", "p1">>
          ELSE IF c = "net" THEN <<"p">> ELSE <<>>] }

CategoryArgs == {"", "auth"}
EngineContents(is_global) == IF is_global THEN {"s2"} ELSE {"s1", "s2"}

\* a solution as a C++ caller of loadSolutions may hand it over
LoadedSolution(content, age, count, is_global) ==
    [content |-> content, created_date |-> to_string(NowBase - age),
     use_count |-> count, source |-> ScopeTag(is_global)]

LoadMaps(is_global) ==
    IF is_global
    THEN { [p \in {"p1"} |-> LoadedSolution("old", 120 * DAY, 4, is_global)] }
    ELSE { [p \in {"p1", "p2"} |-> LoadedSolution("new", 0, 1, is_global)] }

EngineTickSteps == { 29 * DAY, 91 * DAY }

NoStore == [valid |-> FALSE, content |-> "", category |-> "", at |-> 0]
NoReply == [op |-> "none", args |-> <<>>, value |-> <<>>]

\* a std::shared_mutex: the thread holding it exclusively, or "", and the
\* threads holding it shared
Unlocked == [writer |-> "", readers |-> {}]
Tasks == {"t1", "t2"}
IdleTask == [pc |-> "idle", op |-> "", arg |-> <<>>, todo |-> {}, seen |-> <<>>,
             from |-> 0, value |-> <<>>]

EngineInit ==
    /\ category_patterns = EmptyMap
    /\ category_order = <<>>
    /\ category_index = EmptyMap
    /\ total_lookups = 0
    /\ cache_hits = 0
    /\ total_lookup_time_us = 0
    /\ n_calls = 0
    /\ tracked = [c \in CategoryArgs |-> NoStore]
    /\ reply = NoReply
    /\ loaded = EmptyMap
    /\ answers = EmptyMap
    /\ task = [t \in Tasks |-> IdleTask]
    /\ patterns_mutex = Unlocked
    /\ engine_mutex = Unlocked
    /\ cache_mutex = EmptyMap
    /\ domain_readers = {}
    /\ sets = <<EmptyMap>>
    /\ n_ops = 0

\* the microseconds a call adds to total_lookup_time_us
Elapsed(d) ==
    /\ d \in 0..(MaxLookupTime - total_lookup_time_us)
    /\ total_lookup_time_us' = total_lookup_time_us + d

\* a project-scope write for p1 in a category ends the stores tracked there
Overwritten(category) ==
    [c \in CategoryArgs |->
        IF tracked[c].valid /\ tracked[c].category = category
        THEN NoStore ELSE tracked[c]]

\* loading categories ends the stores tracked for the empty category
Initialize(categories) ==
    /\ category_patterns' = ErrorCategorizer_loadCategories(categories)
    /\ category_order' \in Perms(DOMAIN ErrorCategorizer_loadCategories(categories))
    /\ tracked' = [tracked EXCEPT ![""] = NoStore]
    /\ last_call' = NoCall
    /\ UNCHANGED <<category_index, total_lookups, cache_hits,
                   total_lookup_time_us, n_calls>>

StoreSolution(problem, category, solution_content, is_global) ==
    LET final == final_category(problem, category)
    IN  /\ n_calls < MaxEngineCalls
        /\ category_index' = MemoryEngine_storeSolution(category_index, problem,
                                 final, solution_content, is_global, now)
        /\ \E d \in 0..1 : Elapsed(d)
        /\ n_calls' = n_calls + 1
        /\ tracked' =
              IF is_global THEN tracked
              ELSE [Overwritten(final) EXCEPT ![category] =
                      [valid |-> TRUE, content |-> solution_content,
                       category |-> final, at |-> now]]
        /\ last_call' = NoCall
        /\ UNCHANGED <<category_patterns, category_order, total_lookups, cache_hits>>

\* mutant: every lookup counts as a hit
counts_as_hit_always(result) == TRUE

\* if (result) cache_hits++
counts_as_hit(result) == result.found

EngineFindSolution(problem, category) ==
    LET final == final_category(problem, category)
        result == MemoryEngine_findSolution(category_index, problem, final, now)
    IN  /\ n_calls < MaxEngineCalls
        /\ n_calls' = n_calls + 1
        /\ total_lookups' = total_lookups + 1
        /\ cache_hits' = IF counts_as_hit(result) THEN cache_hits + 1 ELSE cache_hits
        /\ \E d \in 0..1 : Elapsed(d)
        /\ last_call' = [op |-> "MemoryEngine_findSolution", problem |-> problem,
                         category |-> category, result |-> result, all |-> <<>>]
        /\ UNCHANGED <<category_patterns, category_order, category_index, tracked>>

LoadSolutions(category, solutions, is_global) ==
    /\ n_calls < MaxEngineCalls
    /\ category_index' = MemoryEngine_loadSolutions(category_index, category,
                                                    solutions, is_global)
    /\ n_calls' = n_calls + 1
    /\ tracked' = IF is_global THEN tracked ELSE Overwritten(category)
    /\ last_call' = NoCall
    /\ UNCHANGED <<category_patterns, category_order, total_lookups, cache_hits,
                   total_lookup_time_us>>

EngineClear ==
    /\ category_index # EmptyMap \/ total_lookups > 0
    /\ category_index' = EmptyMap
    /\ total_lookups' = 0
    /\ cache_hits' = 0
    /\ total_lookup_time_us' = 0
    /\ tracked' = [c \in CategoryArgs |-> NoStore]
    /\ last_call' = NoCall
    /\ UNCHANGED <<category_patterns, category_order, n_calls>>

EngineTick ==
    /\ n_calls < MaxEngineCalls
    /\ n_calls' = n_calls + 1
    /\ \E d \in EngineTickSteps : now' = now + d
    /\ last_call' = NoCall
    /\ UNCHANGED <<cache, inserted, n_adds, category_patterns, category_order,
                   category_index, total_lookups, cache_hits,
                   total_lookup_time_us, tracked, session_vars, bus_vars>>

EngineInitialize ==
    /\ \E categories \in CategoryConfigs : Initialize(categories)
    /\ UNCHANGED <<now, cache, inserted, n_adds, session_vars, bus_vars>>

EngineStore ==
    /\ \E category \in CategoryArgs, is_global \in BOOLEAN :
          \E content \in EngineContents(is_global) :
            StoreSolution("p1", category, content, is_global)
    /\ UNCHANGED <<now, cache, inserted, n_adds, session_vars, bus_vars>>

EngineLoad ==
    /\ \E category \in {"auth"}, is_global \in BOOLEAN :
          \E solutions \in LoadMaps(is_global) :
            LoadSolutions(category, solutions, is_global)
    /\ UNCHANGED <<now, cache, inserted, n_adds, session_vars, bus_vars>>

EngineFind ==
    /\ \E category \in CategoryArgs : EngineFindSolution("p1", category)
    /\ UNCHANGED <<now, cache, inserted, n_adds, session_vars, bus_vars>>

\* the state after construction: an empty cache, an engine with no category
\* loaded, a domain engine with no session
Init == CacheInit /\ EngineInit /\ SessionInit /\ BusInit

EngineReset == EngineClear /\ UNCHANGED <<now, cache, inserted, n_adds, session_vars, bus_vars>>

EngineNext ==
    \/ EngineInitialize
    \/ EngineStore
    \/ EngineLoad
    \/ EngineFind
    \/ EngineReset
    \/ EngineTick

-----------------------------------------------------------------------------
(* The categorizer on its own: initialize() with any mix of patterns that  *)
(* compile and patterns that do not, and categorizeError() of messages     *)
(* that match one category, several, or none.                              *)

CategoryNames == {"auth", "net"}
PatternLists == { <<>>, <<"p1">>, <<"(", "p1">>, <<"p">>, <<"p2", "(">>, <<"(">> }
Messages == {"p1", "p2", "zz"}
LoadArgs == UNION { [S -> PatternLists] : S \in SUBSET CategoryNames }

\* MemoryEngine::initialize: loadCategories lets no exception out, so the
\* catch is not entered
MemoryEngine_initialize(categories) == TRUE

engine_rest == <<now, cache, inserted, n_adds, domain_state, bus_vars, lock_vars>>

CategorizerInitialize ==
    /\ \E categories \in LoadArgs :
          /\ Initialize(categories)
          /\ reply' = [op |-> "initialize", args |-> categories,
                       value |-> MemoryEngine_initialize(categories)]
          /\ loaded' = categories
    /\ answers' = EmptyMap
    /\ UNCHANGED engine_rest

\* categorizeError(message); answers collects what each message was given
CategorizerCategorize ==
    /\ \E message \in Messages :
          LET category == categorizeError(message)
          IN  /\ reply' = [op |-> "categorize", args |-> message,
                           value |-> category]
              /\ answers' = put(answers, message,
                                IF find(answers, message)
                                THEN answers[message] \cup {category}
                                ELSE {category})
    /\ UNCHANGED <<cache_vars, engine_vars, loaded, engine_rest>>

CategorizerNext == CategorizerInitialize \/ CategorizerCategorize

SpecCategorizer == Init /\ [][CategorizerNext]_vars

-----------------------------------------------------------------------------
(* The scorer on its own: one scoreSolution call on any text, context,     *)
(* solution age and use count.  The scorer keeps no state, so one call     *)
(* from the initial state covers every call.                               *)

ScoreLengths == {5, 50, 200}
ScoreMarks == {FENCE, "npm", "1.", "should", "maybe", "config", "auth"}
ScoreWords == {"error"}
ScoreTexts == [length : ScoreLengths, marks : SUBSET ScoreMarks, words : SUBSET ScoreWords]
ScoreContexts ==
    [words : { <<>>,
               << [word |-> "error", length |-> 5], [word |-> "in", length |-> 2],
                  [word |-> "login", length |-> 5] >> },
     marks : SUBSET {"npm", "auth"}]
\* created a day after now, and 60 to 366 days before it
ScoreAges == { -DAY, 60 * DAY, 100 * DAY, 200 * DAY, 366 * DAY }
ScoreUseCounts == {1, 4, 6}

ScoreSolution ==
    /\ reply.op = "none"
    /\ \E text \in ScoreTexts, context \in ScoreContexts, age \in ScoreAges,
          use_count \in ScoreUseCounts :
          LET solution == [content |-> "", created_date |-> to_string(now - age),
                           use_count |-> use_count, source |-> "project"]
          IN  reply' = [op |-> "scoreSolution",
                        args |-> [text |-> text, context |-> context,
                                  age |-> age, use_count |-> use_count],
                        value |-> [metrics |-> metrics_of(solution, text, context, now),
                                   score |-> scoreSolution(solution, text, context, now)]]
    /\ UNCHANGED <<cache_vars, engine_vars, loaded, answers, engine_rest>>

ScorerNext == ScoreSolution

SpecScorer == Init /\ [][ScorerNext]_vars

-----------------------------------------------------------------------------
(* EnhancedMemoryEngine: the ranked path.  std::sort promises an order     *)
(* that agrees with the comparator and nothing about elements the          *)
(* comparator holds equivalent, so findRankedSolutions has a set of        *)
(* possible results: one for each sorted arrangement of the candidates.    *)

\* the candidates with their scores, in getAllSolutions order
ranked_candidates(c, problem, t) ==
    LET all_solutions == SolutionCache_getAllSolutions(c, problem)
        scored(solution) ==
            [result |-> ConflictResult(solution, DEFAULT_LOCAL_PREFERENCE,
                                       <<"AI-ranked result">>),
             score |-> scoreSolution(solution, Text(solution.content),
                                     ProblemContext(problem), t)]
        \* ranked_solutions.emplace_back, once for each solution
        emplace_all[n \in 0..Len(all_solutions)] ==
            IF n = 0 THEN <<>>
            ELSE Append(emplace_all[n - 1], scored(all_solutions[n]))
    IN  emplace_all[Len(all_solutions)]

\* mutant: lowest score first
by_score_ascending(a, b) == a.score < b.score

\* the comparator of the sort: a.second > b.second
by_score(a, b) == a.score > b.score

\* the arrangements of the elements of v at the positions in S in which no
\* element goes before one the comparator puts before it
RECURSIVE arrangements(_, _)
arrangements(v, S) ==
    IF S = {} THEN { <<>> }
    ELSE UNION { { <<v[i]>> \o rest : rest \in arrangements(v, S \ {i}) } :
                   i \in { k \in S : \A j \in S : ~by_score(v[j], v[k]) } }

\* every arrangement std::sort may leave
std_sort(v) == arrangements(v, DOMAIN v)

\* size() > max_suggestions converts the int to size_t: a negative
\* max_suggestions becomes a number no size exceeds
exceeds(size, max_suggestions) == max_suggestions >= 0 /\ size > max_suggestions

resize(v, n) == SubSeq(v, 1, n)

findRankedSolutions(index, problem, category, max_suggestions, t) ==
    LET search_category == IF category = "" THEN categorizeError(problem) ELSE category
    IN  IF ~find(index, search_category) THEN { <<>> }
        ELSE { IF exceeds(Len(ranked_solutions), max_suggestions)
               THEN resize(ranked_solutions, max_suggestions)
               ELSE ranked_solutions :
                 ranked_solutions \in
                     std_sort(ranked_candidates(index[search_category], problem, t)) }

\* std::fixed << std::setprecision(3): the nearest thousandth; a score half
\* way between two thousandths goes the way its binary value leans
fixed3(score) ==
    IF score % 100 = 50 THEN { score \div 100, score \div 100 + 1 }
    ELSE { (score + 50) \div 100 }

\* mutant: the suggestions written last entry first
suggestions_json_reversed(ranked_solutions, scores, context) ==
    [suggestions |->
        [i \in DOMAIN ranked_solutions |->
            LET last_first == ranked_solutions[Len(ranked_solutions) + 1 - i]
            IN  [solution |-> last_first.result.solution.content,
                 score |-> scores[Len(ranked_solutions) + 1 - i],
                 source |-> last_first.result.solution.source,
                 use_count |-> last_first.result.solution.use_count,
                 created_date |-> last_first.result.solution.created_date]],
     total_found |-> Len(ranked_solutions),
     context |-> context]

\* the fields getSuggestions writes, in the order it writes them
suggestions_json(ranked_solutions, scores, context) ==
    [suggestions |->
        [i \in DOMAIN ranked_solutions |->
            [solution |-> ranked_solutions[i].result.solution.content,
             score |-> scores[i],
             source |-> ranked_solutions[i].result.solution.source,
             use_count |-> ranked_solutions[i].result.solution.use_count,
             created_date |-> ranked_solutions[i].result.solution.created_date]],
     total_found |-> Len(ranked_solutions),
     context |-> context]

\* every string getSuggestions may return
getSuggestions(index, problem, context, t) ==
    UNION { { [ranked |-> ranked_solutions,
               json |-> suggestions_json(ranked_solutions, scores, context)] :
                scores \in { f \in [DOMAIN ranked_solutions ->
                                       UNION { fixed3(ranked_solutions[i].score) :
                                                 i \in DOMAIN ranked_solutions }] :
                               \A i \in DOMAIN ranked_solutions :
                                  f[i] \in fixed3(ranked_solutions[i].score) } } :
            ranked_solutions \in findRankedSolutions(index, problem, "", 5, t) }

\* mutant: the context names the cache that is searched
searchWithContext_in_context(index, problem, context, max_results, t) ==
    getSuggestions(put(index, categorizeError(problem), cache_of(index, context)),
                   problem, context, t)

\* DomainMemoryEngine::searchWithContext: getSuggestions(problem, context);
\* max_results is not read
searchWithContext(index, problem, context, max_results, t) ==
    getSuggestions(index, problem, context, t)

\* MemoryApplicationService::searchMemories: the category is handed on as
\* the context
searchMemories(index, query, category, max_results, t) ==
    searchWithContext(index, query, category, max_results, t)

\* the numbers getStatistics writes
getStatistics(index, lookups, hits, time_us) ==
    [total_lookups |-> lookups,
     cache_hits |-> hits,
     avg_lookup_time_us |-> IF lookups > 0 THEN time_us \div lookups ELSE 0,
     categories |-> Cardinality(DOMAIN index),
     category_breakdown |->
        [category \in DOMAIN index |->
            [project |-> Cardinality(DOMAIN index[category].project_solutions),
             global |-> Cardinality(DOMAIN index[category].global_solutions)]]]

\* --- the engine with its ranked path, one caller: every call leaves in
\* reply what it was, what it was given and what it returned
RankedContents(is_global) == IF is_global THEN {"long"} ELSE {"s1", "s2"}
RankedMax == {-1, 0, 1, 2, 5}
RankedContexts == {"ctx"}
RankedTickSteps == { 91 * DAY }
\* each call is over within the microsecond: the lookup time is of no
\* concern to the ranked path
RankedElapsed == {0}

Called(op, args, value) == reply' = [op |-> op, args |-> args, value |-> value]

\* one more call that changes the engine, out of MaxRankedCalls
RankedCall ==
    /\ n_calls < MaxRankedCalls
    /\ n_calls' = n_calls + 1
    /\ last_call' = NoCall

RankedInitialize ==
    /\ reply.op = "none"
    /\ \E categories \in CategoryConfigs :
          /\ Initialize(categories)
          /\ Called("initialize", categories, TRUE)
    /\ UNCHANGED <<loaded, answers, engine_rest>>

\* storeSolution("p1", "", content, is_global)
StoreCall ==
    /\ n_calls' = n_calls + 1
    /\ last_call' = NoCall
    /\ \E category \in {""}, is_global \in BOOLEAN :
          \E content \in RankedContents(is_global) :
             /\ category_index' =
                   MemoryEngine_storeSolution(category_index, "p1",
                       final_category("p1", category), content, is_global, now)
             /\ Called("storeSolution", <<"p1", category, content, is_global>>, TRUE)
    /\ \E d \in RankedElapsed : Elapsed(d)
    /\ UNCHANGED <<category_patterns, category_order, total_lookups, cache_hits,
                   tracked, loaded, answers, engine_rest>>

RankedStore ==
    /\ n_calls < MaxRankedCalls
    /\ StoreCall

RankedLoad ==
    /\ RankedCall
    /\ \E is_global \in BOOLEAN : \E solutions \in LoadMaps(is_global) :
          /\ category_index' =
                MemoryEngine_loadSolutions(category_index, "auth", solutions, is_global)
          /\ Called("loadSolutions", <<"auth", solutions, is_global>>, <<>>)
    /\ UNCHANGED <<category_patterns, category_order, total_lookups, cache_hits,
                   total_lookup_time_us, tracked, loaded, answers, engine_rest>>

RankedFind ==
    /\ RankedCall
    /\ \E category \in CategoryArgs :
          LET result == MemoryEngine_findSolution(category_index, "p1",
                            final_category("p1", category), now)
          IN  /\ total_lookups' = total_lookups + 1
              /\ cache_hits' = IF counts_as_hit(result) THEN cache_hits + 1
                               ELSE cache_hits
              /\ Called("findSolution", <<"p1", category>>, result)
    /\ \E d \in RankedElapsed : Elapsed(d)
    /\ UNCHANGED <<category_patterns, category_order, category_index,
                   tracked, loaded, answers, engine_rest>>

RankedFindRanked ==
    /\ \E category \in CategoryArgs, max_suggestions \in RankedMax :
          \E ranked_solutions \in findRankedSolutions(category_index, "p1", category,
                                                      max_suggestions, now) :
             Called("findRankedSolutions", <<"p1", category, max_suggestions>>,
                    ranked_solutions)
    /\ last_call' = NoCall
    /\ UNCHANGED <<cache_vars, category_patterns, category_order, category_index,
                   total_lookups, cache_hits, total_lookup_time_us, n_calls,
                   tracked, loaded, answers, engine_rest>>

RankedGetSuggestions ==
    /\ \E context \in RankedContexts :
          \E returned \in getSuggestions(category_index, "p1", context, now) :
             Called("getSuggestions", <<"p1", context>>, returned)
    /\ last_call' = NoCall
    /\ UNCHANGED <<cache_vars, category_patterns, category_order, category_index,
                   total_lookups, cache_hits, total_lookup_time_us, n_calls,
                   tracked, loaded, answers, engine_rest>>

RankedGetStatistics ==
    /\ Called("getStatistics", <<>>,
              getStatistics(category_index, total_lookups, cache_hits,
                            total_lookup_time_us))
    /\ last_call' = NoCall
    /\ UNCHANGED <<cache_vars, category_patterns, category_order, category_index,
                   total_lookups, cache_hits, total_lookup_time_us, n_calls,
                   tracked, loaded, answers, engine_rest>>

RankedClear ==
    /\ RankedCall
    /\ category_index' = EmptyMap
    /\ total_lookups' = 0
    /\ cache_hits' = 0
    /\ total_lookup_time_us' = 0
    /\ Called("clear", <<>>, <<>>)
    /\ UNCHANGED <<category_patterns, category_order, tracked, loaded, answers,
                   engine_rest>>

\* time passes between two calls
RankedTick ==
    /\ RankedCall
    /\ \E d \in RankedTickSteps : now' = now + d
    /\ Called("tick", <<>>, <<>>)
    /\ UNCHANGED <<cache, inserted, n_adds, category_patterns, category_order,
                   category_index, total_lookups, cache_hits,
                   total_lookup_time_us, tracked, loaded, answers,
                   domain_state, bus_vars, lock_vars>>

RankedNext ==
    \/ RankedInitialize
    \/ RankedStore
    \/ RankedLoad
    \/ RankedFind
    \/ RankedFindRanked
    \/ RankedGetSuggestions
    \/ RankedGetStatistics
    \/ RankedClear
    \/ RankedTick

SpecRanked == Init /\ [][RankedNext]_vars

\* --- getSuggestions over as many stored solutions as the two scopes of one
\* problem hold: more than the five it asks for
SuggestStore ==
    /\ n_calls < MaxSuggestCalls
    /\ StoreCall

SuggestionsNext ==
    \/ RankedInitialize
    \/ SuggestStore
    \/ RankedGetSuggestions

SpecSuggestions == Init /\ [][SuggestionsNext]_vars

-----------------------------------------------------------------------------
(* The categorizer called from several threads.  loadCategories holds      *)
(* patterns_mutex exclusively while it clears the map and inserts the      *)
(* categories one by one; categorize holds it shared while it searches.    *)

\* mutant: a shared lock is granted while a writer holds the mutex
shared_lock_granted_always(mutex) == TRUE

\* std::shared_lock: granted once no thread holds the mutex exclusively
shared_lock_granted(mutex) == mutex.writer = ""

\* mutant: an exclusive lock is granted whoever holds the mutex
unique_lock_granted_always(mutex) == TRUE

\* std::unique_lock: granted once no thread holds the mutex at all
unique_lock_granted(mutex) == mutex.writer = "" /\ mutex.readers = {}

lock(mutex, t) == [mutex EXCEPT !.writer = t]
lock_shared(mutex, t) == [mutex EXCEPT !.readers = @ \cup {t}]
unlock(mutex, t) == [mutex EXCEPT !.writer = ""]
unlock_shared(mutex, t) == [mutex EXCEPT !.readers = @ \ {t}]

\* the old set holds two categories, the new one a single other pattern
ConcurrentLoads ==
    { [c \in {"auth", "net"} |-> IF c = "auth" THEN <<"(", "p1">> ELSE <<"p">>],
      [c \in {"auth"} |-> <<"p2">>] }

patterns_rest == <<cache_vars, category_index, total_lookups, cache_hits,
                   total_lookup_time_us, n_calls, tracked, domain_state,
                   bus_vars, engine_mutex, cache_mutex, domain_readers, answers>>

\* a call begins
TaskBegin(t) ==
    /\ task[t].pc = "idle"
    /\ n_ops < MaxCategorizerOps
    /\ n_ops' = n_ops + 1

\* loadCategories: std::unique_lock lock(patterns_mutex)
LoadLock(t, categories) ==
    /\ TaskBegin(t)
    /\ unique_lock_granted(patterns_mutex)
    /\ patterns_mutex' = lock(patterns_mutex, t)
    /\ task' = [task EXCEPT ![t] = [IdleTask EXCEPT !.pc = "clear",
                                     !.op = "loadCategories",
                                     !.arg = categories]]
    /\ UNCHANGED <<category_patterns, category_order, reply, loaded, sets,
                   patterns_rest>>

\* loadCategories: category_patterns.clear()
LoadClear(t) ==
    /\ task[t].pc = "clear"
    /\ category_patterns' = EmptyMap
    /\ category_order' = <<>>
    /\ task' = [task EXCEPT ![t].pc = "insert", ![t].todo = DOMAIN task[t].arg]
    /\ UNCHANGED <<patterns_mutex, reply, loaded, sets, n_ops, patterns_rest>>

\* loadCategories: one turn of the outer loop, for any category of the
\* argument not yet visited
LoadInsert(t) ==
    /\ task[t].pc = "insert"
    /\ \E c \in task[t].todo :
          /\ task' = [task EXCEPT ![t].todo = @ \ {c}]
          /\ IF task[t].arg[c] = <<>>
             THEN UNCHANGED <<category_patterns, category_order>>
             ELSE /\ category_patterns' =
                        put(category_patterns, c,
                            SelectSeq(task[t].arg[c], regex_valid))
                  /\ category_order' \in Perms(DOMAIN category_patterns \cup {c})
    /\ UNCHANGED <<patterns_mutex, reply, loaded, sets, n_ops, patterns_rest>>

\* loadCategories returns: the lock is released
LoadUnlock(t) ==
    /\ task[t].pc = "insert"
    /\ task[t].todo = {}
    /\ patterns_mutex' = unlock(patterns_mutex, t)
    /\ sets' = Append(sets, category_patterns)
    /\ loaded' = task[t].arg
    /\ task' = [task EXCEPT ![t] = IdleTask]
    /\ UNCHANGED <<category_patterns, category_order, reply, n_ops,
                   patterns_rest>>

\* categorize is called; from is the number of sets loaded so far (history)
CategorizeBegin(t, message) ==
    /\ TaskBegin(t)
    /\ task' = [task EXCEPT ![t] = [IdleTask EXCEPT !.pc = "lock_shared",
                                     !.op = "categorize", !.arg = message,
                                     !.from = Len(sets)]]
    /\ UNCHANGED <<category_patterns, category_order, patterns_mutex, reply,
                   loaded, sets, patterns_rest>>

\* categorize: std::shared_lock lock(patterns_mutex)
CategorizeLock(t) ==
    /\ task[t].pc = "lock_shared"
    /\ shared_lock_granted(patterns_mutex)
    /\ patterns_mutex' = lock_shared(patterns_mutex, t)
    /\ task' = [task EXCEPT ![t].pc = "search"]
    /\ UNCHANGED <<category_patterns, category_order, reply, loaded, sets,
                   n_ops, patterns_rest>>

\* categorize: the loops over the map; seen is the map searched (history)
CategorizeSearch(t) ==
    /\ task[t].pc = "search"
    /\ task' = [task EXCEPT ![t].pc = "return",
                            ![t].seen = category_patterns,
                            ![t].value = categorizeError(task[t].arg)]
    /\ UNCHANGED <<category_patterns, category_order, patterns_mutex, reply,
                   loaded, sets, n_ops, patterns_rest>>

\* categorize returns: the lock is released
CategorizeReturn(t) ==
    /\ task[t].pc = "return"
    /\ patterns_mutex' = unlock_shared(patterns_mutex, t)
    /\ reply' = [op |-> "categorize", args |-> task[t].arg,
                 value |-> task[t].value]
    /\ task' = [task EXCEPT ![t] = IdleTask]
    /\ UNCHANGED <<category_patterns, category_order, loaded, sets, n_ops,
                   patterns_rest>>

LoadLocks == \E t \in Tasks, categories \in ConcurrentLoads : LoadLock(t, categories)
LoadClears == \E t \in Tasks : LoadClear(t)
LoadInserts == \E t \in Tasks : LoadInsert(t)
LoadUnlocks == \E t \in Tasks : LoadUnlock(t)
CategorizeBegins == \E t \in Tasks, message \in Messages : CategorizeBegin(t, message)
CategorizeLocks == \E t \in Tasks : CategorizeLock(t)
CategorizeSearches == \E t \in Tasks : CategorizeSearch(t)
CategorizeReturns == \E t \in Tasks : CategorizeReturn(t)

CategorizerThreadsNext ==
    \/ LoadLocks
    \/ LoadClears
    \/ LoadInserts
    \/ LoadUnlocks
    \/ CategorizeBegins
    \/ CategorizeLocks
    \/ CategorizeSearches
    \/ CategorizeReturns

SpecCategorizerThreads == Init /\ [][CategorizerThreadsNext]_vars

-----------------------------------------------------------------------------
(* DomainMemoryEngine and MemoryApplicationService: the operations of one  *)
(* calling thread.  event_queue holds every event published, in order: the *)
(* worker initializeDomain() starts takes no step here.                    *)

\* a DomainMemoryEngine call on memory entries and its result (history)
EntryCall(op, entry_id, returned, before) ==
    [op |-> op, session_id |-> entry_id, returned |-> returned, before |-> before]

DomainCall ==
    /\ n_session_calls < MaxDomainCalls
    /\ n_session_calls' = n_session_calls + 1
    /\ UNCHANGED <<now_ms, session, entry, drained, thread_vars, call_vars>>

BaseEngineUntouched == UNCHANGED <<cache_vars, engine_vars>>

DomainHandlers ==
    <<"MemoryEntryCreated", "MemoryEntryUpdated", "SearchSessionStarted",
      "SearchSessionCompleted">>

RECURSIVE subscribe_all(_, _, _)
subscribe_all(table, types, i) ==
    IF i > Len(types) THEN table
    ELSE subscribe_all(subscribe(table, types[i], "returns"), types, i + 1)

\* initializeDomain(): the base engine's initialize(), which always
\* succeeds, four subscriptions of handlers with empty bodies, and
\* event_bus->start() run by this thread alone
initializeDomain(categories) ==
    /\ DomainCall
    /\ Initialize(categories)
    /\ handlers' = subscribe_all(handlers, DomainHandlers, 1)
    /\ IF running
       THEN UNCHANGED <<running, worker, processor_thread>>
       ELSE /\ running' = TRUE
            /\ worker' = put(worker, Cardinality(Workers) + 1,
                             [pc |-> "check_running", event |-> NoEvent,
                              idx |-> 0, temporary_of |-> ""])
            /\ processor_thread' = Cardinality(Workers) + 1
    /\ domain_call' = EntryCall("initializeDomain", <<>>, TRUE, NoAggregate)
    /\ UNCHANGED <<now, cache, inserted, n_adds, queue_mutex, queue_cv, caller,
                   terminated, delivered, published, n_bus_calls, event_queue,
                   search_aggregates, memory_aggregates>>

\* createMemoryEntry(): create, commit and insert under the domain lock,
\* then storeSolution() on the base engine; the id is returned
createMemoryEntry(problem, solution, category) ==
    LET aggregate == MemoryEntryAggregate_create(problem, solution, category,
                                                 system_clock_now)
        committed == commitAggregateEvents(aggregate, event_queue)
    IN  /\ DomainCall
        /\ event_queue' = committed.queue
        /\ memory_aggregates' = put(memory_aggregates, aggregate.id,
                                    committed.aggregate)
        /\ StoreSolution(problem, category, solution, FALSE)
        /\ domain_call' =
              EntryCall("createMemoryEntry", aggregate.id, TRUE,
                        IF find(memory_aggregates, aggregate.id)
                        THEN memory_aggregates[aggregate.id] ELSE NoAggregate)
              @@ [problem |-> problem, solution |-> solution,
                  category |-> category]
        /\ UNCHANGED <<now, cache, inserted, n_adds, bus_vars, search_aggregates>>

\* updateMemoryEntry(): false for an id that is not stored
updateMemoryEntry(entry_id, new_solution, reason) ==
    /\ DomainCall
    /\ BaseEngineUntouched
    /\ IF find(memory_aggregates, entry_id)
       THEN LET committed ==
                    commitAggregateEvents(
                        updateSolution(memory_aggregates[entry_id], new_solution,
                                       reason, system_clock_now),
                        event_queue)
            IN  /\ event_queue' = committed.queue
                /\ memory_aggregates' = put(memory_aggregates, entry_id,
                                            committed.aggregate)
                /\ domain_call' = EntryCall("updateMemoryEntry", entry_id, TRUE,
                                            memory_aggregates[entry_id])
       ELSE /\ domain_call' = EntryCall("updateMemoryEntry", entry_id, FALSE,
                                        NoAggregate)
            /\ UNCHANGED <<event_queue, memory_aggregates>>
    /\ UNCHANGED <<bus_vars, search_aggregates>>

\* mutant: a missing id yields whichever entry is stored
getMemoryEntry_any(store, entry_id) ==
    IF store = EmptyMap THEN NoAggregate
    ELSE store[CHOOSE k \in DOMAIN store : TRUE]

\* DomainMemoryEngine::getMemoryEntry(): the stored aggregate, or nullptr
getMemoryEntry(store, entry_id) ==
    IF find(store, entry_id) THEN store[entry_id] ELSE NoAggregate

\* MemoryApplicationService::getMemoryEntry(): the JSON object written, as
\* its members; "{}" is the object without members
MemoryApplicationService_getMemoryEntry(store, entry_id) ==
    LET found == getMemoryEntry(store, entry_id)
    IN  IF found = NoAggregate THEN EmptyMap
        ELSE [id |-> found.id, problem |-> found.problem,
              solution |-> found.solution, category |-> found.category,
              confidence |-> found.confidence_score,
              has_conflicts |-> found.conflict_ids # <<>>]

ServiceGetMemoryEntry(entry_id) ==
    /\ DomainCall
    /\ BaseEngineUntouched
    /\ domain_call' =
          EntryCall("getMemoryEntry", entry_id,
                    find(memory_aggregates, entry_id), NoAggregate)
          @@ [json |-> MemoryApplicationService_getMemoryEntry(
                           memory_aggregates, entry_id)]
    /\ UNCHANGED <<bus_vars, event_queue, search_aggregates, memory_aggregates>>

UnknownEntryId == <<"mem_", <<0>>>>

DomainInitialize == \E categories \in CategoryConfigs : initializeDomain(categories)

DomainCreateMemoryEntry ==
    \E problem \in EntryProblems, solution \in EntrySolutions,
       category \in EntryCategories :
        createMemoryEntry(problem, solution, category)

DomainUpdateMemoryEntry ==
    \E entry_id \in DOMAIN memory_aggregates \cup {UnknownEntryId},
       reason \in UpdateReasons :
        updateMemoryEntry(entry_id, "s2", reason)

DomainGetMemoryEntry ==
    \E entry_id \in DOMAIN memory_aggregates \cup {UnknownEntryId} :
        ServiceGetMemoryEntry(entry_id)

DomainStartSearchSession ==
    /\ n_session_calls < MaxDomainCalls
    /\ SessionStart

DomainAddSearchLayer ==
    /\ n_session_calls < MaxDomainCalls
    /\ \E session_id \in DOMAIN search_aggregates \cup {UnknownId} :
          addSearchLayer(session_id, "x")

DomainCompleteSearch ==
    /\ n_session_calls < MaxDomainCalls
    /\ \E session_id \in DOMAIN search_aggregates \cup {UnknownId} :
          completeSearchSession(session_id, 90)

\* a caller of the service also makes and drains an aggregate of its own
DomainHeldCreate ==
    /\ n_session_calls < MaxDomainCalls
    /\ EntryCreate

DomainHeldUpdate ==
    /\ n_session_calls < MaxDomainCalls
    /\ EntryUpdateSolution

DomainHeldDrain ==
    /\ n_session_calls < MaxDomainCalls
    /\ EntryGetUncommittedEvents

DomainNext ==
    \/ DomainHeldCreate
    \/ DomainHeldUpdate
    \/ DomainHeldDrain
    \/ DomainInitialize
    \/ DomainCreateMemoryEntry
    \/ DomainUpdateMemoryEntry
    \/ DomainGetMemoryEntry
    \/ DomainStartSearchSession
    \/ DomainAddSearchLayer
    \/ DomainCompleteSearch
    \/ SessionTick

SpecDomain == Init /\ [][DomainNext]_vars

-----------------------------------------------------------------------------
(* DomainMemoryEngine called from several threads.  domain_mutex serialises *)
(* the locked part of each operation; what an operation does outside the    *)
(* lock, and each publish() inside it, is a step of its own, and the bus    *)
(* worker runs alongside.  The threads create and update memory entries;    *)
(* the search-session operations commit through the same                    *)
(* commitAggregateEvents() under the same lock.                             *)

bus_rest == <<handlers, running, processor_thread, queue_mutex, caller,
              terminated, delivered, n_bus_calls>>
stores == <<memory_aggregates, search_aggregates>>
held_vars == <<session, entry, drained, domain_call, call_vars>>

\* mutant: the lock is granted while another thread holds it
owns_lock_always(mutex) == TRUE

\* std::unique_lock<std::shared_mutex>: granted once no thread holds the mutex
owns_lock(mutex) == mutex = ""

ThreadStep(t) ==
    /\ terminated = ""
    /\ UNCHANGED held_vars

\* a step that does not read the clock
NoClock(t) == ThreadStep(t) /\ UNCHANGED now_ms

\* system_clock::now() as a step reads it: not before the last time read
ReadClock(ms) ==
    /\ ms \in now_ms..MaxSessionMs
    /\ now_ms' = ms

\* the call begins: n_session_calls numbers it
Begun(t) ==
    /\ ThreadStep(t)
    /\ thread[t].pc = "idle"
    /\ running
    /\ n_session_calls < MaxThreadOps
    /\ n_session_calls' = n_session_calls + 1

\* createMemoryEntry(): create() before the lock is taken.  uid tells the
\* aggregates apart whatever their ids (history)
ThreadCreate(t, op, aggregate) ==
    /\ Begun(t)
    /\ thread' = [thread EXCEPT ![t] =
                    [pc |-> "lock", op |-> op, op_no |-> n_session_calls + 1,
                     aggregate |-> aggregate @@ [uid |-> n_session_calls + 1],
                     events |-> <<>>, i |-> 0]]
    /\ UNCHANGED <<cache_vars, engine_vars, bus_vars, event_queue, stores,
                   domain_mutex>>

\* std::unique_lock lock(domain_mutex), then commitAggregateEvents() takes
\* the uncommitted events
ThreadLock(t) ==
    /\ NoClock(t)
    /\ thread[t].pc = "lock"
    /\ owns_lock(domain_mutex)
    /\ domain_mutex' = t
    /\ LET moved == getUncommittedEvents(thread[t].aggregate)
       IN  thread' = [thread EXCEPT ![t].pc = "publish",
                                    ![t].aggregate = moved.aggregate,
                                    ![t].events = moved.events,
                                    ![t].i = 1]
    /\ UNCHANGED <<cache_vars, engine_vars, bus_vars, event_queue, stores,
                   n_session_calls>>

\* updateMemoryEntry(): the lock, find(), the mutator on the stored aggregate,
\* and commitAggregateEvents() taking the uncommitted events; false at once
\* for an id that is not stored
ThreadMutate(t, op, store, id, mutated) ==
    /\ Begun(t)
    /\ owns_lock(domain_mutex)
    /\ IF find(store, id)
       THEN LET moved == getUncommittedEvents(mutated)
            IN  /\ domain_mutex' = t
                /\ thread' = [thread EXCEPT ![t] =
                                [pc |-> "publish", op |-> op,
                                 op_no |-> n_session_calls + 1,
                                 aggregate |-> moved.aggregate,
                                 events |-> moved.events, i |-> 1]]
                /\ memory_aggregates' = put(store, id, moved.aggregate)
                /\ UNCHANGED search_aggregates
       ELSE UNCHANGED <<domain_mutex, thread, stores>>
    /\ UNCHANGED <<cache_vars, engine_vars, bus_vars, event_queue>>

\* event_bus->publish(event): the push under queue_mutex.  op_no and uid
\* record the commit and the aggregate the event comes from (history)
ThreadPublish(t) ==
    /\ NoClock(t)
    /\ thread[t].pc = "publish"
    /\ queue_mutex = NoThread
    /\ LET event == thread[t].events[thread[t].i]
                    @@ [op_no |-> thread[t].op_no, uid |-> thread[t].aggregate.uid]
       IN  /\ event_queue' = publish(event_queue, event)
           /\ published' = Append(published, event)
    /\ thread' = [thread EXCEPT ![t].pc = "notify_one"]
    /\ UNCHANGED <<cache_vars, engine_vars, bus_rest, queue_cv, worker, stores,
                   domain_mutex, n_session_calls>>

\* event_bus->publish(event): queue_cv.notify_one(), then the next event
ThreadNotify(t) ==
    /\ NoClock(t)
    /\ thread[t].pc = "notify_one"
    /\ IF queue_cv = {}
       THEN UNCHANGED <<queue_cv, worker>>
       ELSE \E w \in queue_cv :
               /\ queue_cv' = queue_cv \ {w}
               /\ worker' = goto(w, "woken")
    /\ thread' = [thread EXCEPT ![t].i = @ + 1,
                                ![t].pc = IF thread[t].i < Len(thread[t].events)
                                          THEN "publish" ELSE "committed"]
    /\ UNCHANGED <<cache_vars, engine_vars, bus_rest, published, event_queue,
                   stores, domain_mutex, n_session_calls>>

\* markEventsAsCommitted(); a created aggregate is moved into its store; the
\* lock is released
ThreadCommitted(t) ==
    /\ NoClock(t)
    /\ thread[t].pc = "committed"
    /\ domain_mutex' = ""
    /\ LET aggregate == markEventsAsCommitted(thread[t].aggregate)
       IN  IF thread[t].op = "createMemoryEntry"
           THEN /\ memory_aggregates' = put(memory_aggregates, aggregate.id,
                                            aggregate)
                /\ UNCHANGED search_aggregates
           ELSE UNCHANGED stores
    /\ thread' = [thread EXCEPT ![t] =
                    IF thread[t].op = "createMemoryEntry"
                    THEN [@ EXCEPT !.pc = "storeSolution"] ELSE IdleThread]
    /\ UNCHANGED <<cache_vars, engine_vars, bus_vars, event_queue,
                   n_session_calls>>

\* createMemoryEntry(): storeSolution(problem, category, solution, false)
\* after the lock is released
ThreadStoreSolution(t) ==
    /\ NoClock(t)
    /\ thread[t].pc = "storeSolution"
    /\ StoreSolution(thread[t].aggregate.problem, thread[t].aggregate.category,
                     thread[t].aggregate.solution, FALSE)
    /\ thread' = [thread EXCEPT ![t] = IdleThread]
    /\ UNCHANGED <<now, cache, inserted, n_adds, bus_vars, event_queue, stores,
                   domain_mutex, n_session_calls>>

ThreadCreateMemoryEntry(t) ==
    \E ms \in 0..MaxSessionMs :
        /\ ReadClock(ms)
        /\ ThreadCreate(t, "createMemoryEntry",
                        MemoryEntryAggregate_create("p1", "s1", "auth",
                                                    time_point(now, ms)))

ThreadUpdateMemoryEntry(t) ==
    \E id \in DOMAIN memory_aggregates \cup {UnknownEntryId},
       ms \in 0..MaxSessionMs :
        /\ ReadClock(ms)
        /\ ThreadMutate(t, "updateMemoryEntry", memory_aggregates, id,
                        IF find(memory_aggregates, id)
                        THEN updateSolution(memory_aggregates[id], "s2", "fix",
                                            time_point(now, ms))
                        ELSE NoAggregate)

\* the engine is initialised once, before the threads call it
ThreadsInitialize ==
    /\ ~running
    /\ initializeDomain([c \in {"auth"} |-> <<"p1">>])

ThreadsCreateMemoryEntry == \E t \in DomainThreads : ThreadCreateMemoryEntry(t)
ThreadsUpdateMemoryEntry == \E t \in DomainThreads : ThreadUpdateMemoryEntry(t)
ThreadsLock == \E t \in DomainThreads : ThreadLock(t)
ThreadsPublish == \E t \in DomainThreads : ThreadPublish(t)
ThreadsNotify == \E t \in DomainThreads : ThreadNotify(t)
ThreadsCommitted == \E t \in DomainThreads : ThreadCommitted(t)
ThreadsStoreSolution == \E t \in DomainThreads : ThreadStoreSolution(t)

ThreadsNext ==
    \/ ThreadsInitialize
    \/ ThreadsCreateMemoryEntry
    \/ ThreadsUpdateMemoryEntry
    \/ ThreadsLock
    \/ ThreadsPublish
    \/ ThreadsNotify
    \/ ThreadsCommitted
    \/ ThreadsStoreSolution
    \/ Worker

SpecDomainThreads == Init /\ [][ThreadsNext]_vars

SpecEngine == Init /\ [][EngineNext]_vars

SpecSession == Init /\ [][SessionNext]_vars

SpecAggregate == Init /\ [][AggregateNext]_vars
SpecBus == Init /\ [][BusNext]_vars
SpecBusRace == Init /\ [][BusRaceNext]_vars
\* every thread that can take a step is eventually scheduled; nothing obliges
\* a caller to begin a call, and nothing obliges a wait to wake spuriously
BusFairness ==
    /\ \A w \in 1..MaxBusCalls : WF_vars(WorkerStep(w))
    /\ \A u \in Publishers : WF_vars(PublishNotify(u))
    /\ WF_vars(StartStore("c1") \/ StartThread("c1") \/ StartAssign("c1"))
    /\ WF_vars(StopStore("c1") \/ StopNotify("c1") \/ StopJoinable("c1") \/ StopJoin("c1"))
SpecBusFair == Init /\ [][BusNext]_vars /\ BusFairness

CapAdd ==
    /\ n_adds < MaxCapAdds
    /\ \E problem \in Problems, is_global \in BOOLEAN :
         AddSolution(problem,
                     Solution(ContentOf(n_adds + 1), ScopeTag(is_global), now),
                     is_global)

CapFind == \E problem \in Problems : FindSolution(problem)

CapGetAll == \E problem \in Problems : GetAllSolutions(problem)

CapClear == cache # EmptyCache /\ Clear

CapNext == CapAdd \/ CapFind \/ CapGetAll \/ CapClear

SpecCap == Init /\ [][CapNext]_vars

\* --- the conflict-resolution specification: few inserts, any dates and counts
ResolveAdd ==
    /\ n_adds < MaxResolveAdds
    /\ \E is_global \in BOOLEAN :
         \E solution \in ResolveSolutions(is_global) :
            AddSolution("p1", solution, is_global)

ResolveFind == FindSolution("p1")

ResolveTick == now < NowBase + MaxAdvance /\ Tick(1)

ResolveNext == ResolveAdd \/ ResolveFind \/ ResolveTick

SpecResolve == Init /\ [][ResolveNext]_vars

\* --- the lookup-history specification: more inserts of fewer solutions, so
\* that the candidates of a lookup lie above older solutions of their scope
HistoryAges == { DAY, 120 * DAY, 211 * DAY }
HistoryUseCounts == {1, 4}

HistorySolutions(is_global) ==
    { [content |-> "fix", created_date |-> to_string(NowBase - a),
       use_count |-> u, source |-> ScopeTag(is_global)] :
      a \in HistoryAges, u \in HistoryUseCounts }

HistoryAdd ==
    /\ n_adds < MaxHistoryAdds
    /\ \E is_global \in BOOLEAN :
         \E solution \in HistorySolutions(is_global) :
            AddSolution("p1", solution, is_global)

HistoryFind == FindSolution("p1")

HistoryNext == HistoryAdd \/ HistoryFind

SpecHistory == Init /\ [][HistoryNext]_vars

-----------------------------------------------------------------------------
(* The engine called from several threads, directly and through            *)
(* createMemoryEntry and getDomainStatistics.  Every acquisition and        *)
(* release of engine_mutex, of a cache's cache_mutex and of domain_mutex,   *)
(* and every read-modify-write of a counter made outside a lock, is a step  *)
(* of its own.  The calls are on problem p1 in category auth, so the        *)
(* categorizer is not asked.                                                *)

EngineThreadOps ==
    {"storeSolution", "loadSolutions", "findSolution", "getStatistics", "clear",
     "createMemoryEntry", "getDomainStatistics"}

thr_quiet == <<now, cache, inserted, n_adds, last_call, category_patterns,
               category_order, n_calls, tracked, now_ms, search_aggregates,
               session, n_session_calls, domain_call, entry, drained, bus_vars,
               thread, loaded, answers, patterns_mutex, sets>>
thr_counters == <<total_lookups, cache_hits, total_lookup_time_us>>
thr_domain == <<domain_mutex, domain_readers, memory_aggregates, event_queue>>
thr_caches == <<category_index, cache_mutex>>

Goto(t, pc) == task' = [task EXCEPT ![t].pc = pc]

\* the call returns: reply keeps what it was and whether any other call was
\* in progress at any time between its first step and its last (history)
Return(t, value) ==
    /\ task' = [task EXCEPT ![t] = IdleTask]
    /\ reply' = [op |-> task[t].op, args |-> [alone |-> task[t].alone],
                 value |-> value]

\* mutant: the lock of the inner block is still held after the block
scope_exit_held(holder) == holder

\* the end of the block that declares the std::unique_lock
scope_exit(holder) == ""

\* a thread begins a call
ThreadCall ==
    \E t \in Tasks, op \in EngineThreadOps :
        /\ task[t].pc = "idle"
        /\ n_ops < MaxEngineThreadOps
        /\ n_ops' = n_ops + 1
        /\ task' = [u \in Tasks |->
                      IF u = t
                      THEN [pc |-> "called", op |-> op, value |-> <<>>,
                            stats |-> <<>>,
                            alone |-> \A v \in Tasks \ {t} : task[v].pc = "idle"]
                      ELSE IF task[u].pc = "idle" THEN task[u]
                      ELSE [task[u] EXCEPT !.alone = FALSE]]
        /\ UNCHANGED <<reply, engine_mutex, thr_caches, thr_counters, thr_domain,
                       thr_quiet>>

\* storeSolution, loadSolutions: std::unique_lock lock(engine_mutex)
StoreLock ==
    \E t \in Tasks :
        /\ \/ task[t].pc = "called" /\ task[t].op \in {"storeSolution", "loadSolutions"}
           \/ task[t].pc = "store"
        /\ unique_lock_granted(engine_mutex)
        /\ engine_mutex' = lock(engine_mutex, t)
        /\ Goto(t, "store_locked")
        /\ UNCHANGED <<reply, n_ops, thr_caches, thr_counters, thr_domain, thr_quiet>>

\* the category's cache is created if there is none; addSolution takes
\* std::unique_lock lock(cache_mutex)
StoreCacheLock ==
    \E t \in Tasks :
        /\ task[t].pc = "store_locked"
        /\ unique_lock_granted(IF find(cache_mutex, "auth") THEN cache_mutex["auth"]
                               ELSE Unlocked)
        /\ category_index' = IF find(category_index, "auth") THEN category_index
                             ELSE put(category_index, "auth", EmptyCache)
        /\ cache_mutex' = put(cache_mutex, "auth", lock(Unlocked, t))
        /\ Goto(t, "store_cache")
        /\ UNCHANGED <<reply, n_ops, engine_mutex, thr_counters, thr_domain, thr_quiet>>

\* addSolution appends and returns, releasing cache_mutex
StoreAdd ==
    \E t \in Tasks :
        /\ task[t].pc = "store_cache"
        /\ IF task[t].op = "loadSolutions"
           THEN \E solutions \in LoadMaps(TRUE) :
                   category_index' = MemoryEngine_loadSolutions(category_index, "auth",
                                                                solutions, TRUE)
           ELSE category_index' = MemoryEngine_storeSolution(category_index, "p1",
                                                             "auth", "s1", FALSE, now)
        /\ cache_mutex' = put(cache_mutex, "auth", unlock(cache_mutex["auth"], t))
        /\ Goto(t, "store_added")
        /\ UNCHANGED <<reply, n_ops, engine_mutex, thr_counters, thr_domain, thr_quiet>>

\* the block ends and engine_mutex is released; loadSolutions returns
StoreUnlock ==
    \E t \in Tasks :
        /\ task[t].pc = "store_added"
        /\ engine_mutex' = unlock(engine_mutex, t)
        /\ IF task[t].op = "loadSolutions" THEN Return(t, <<>>)
           ELSE Goto(t, "store_unlocked") /\ UNCHANGED reply
        /\ UNCHANGED <<n_ops, thr_caches, thr_counters, thr_domain, thr_quiet>>

\* storeSolution: total_lookup_time_us += duration.count(), then return true
StoreTime ==
    \E t \in Tasks :
        /\ task[t].pc = "store_unlocked"
        /\ total_lookup_time_us' = total_lookup_time_us + 1
        /\ Return(t, TRUE)
        /\ UNCHANGED <<n_ops, engine_mutex, thr_caches, total_lookups, cache_hits,
                       thr_domain, thr_quiet>>

\* findSolution: total_lookups++ before any lock
FindCount ==
    \E t \in Tasks :
        /\ task[t].pc = "called" /\ task[t].op = "findSolution"
        /\ total_lookups' = total_lookups + 1
        /\ Goto(t, "find_counted")
        /\ UNCHANGED <<reply, n_ops, engine_mutex, thr_caches, cache_hits,
                       total_lookup_time_us, thr_domain, thr_quiet>>

\* std::shared_lock lock(engine_mutex)
FindLock ==
    \E t \in Tasks :
        /\ task[t].pc = "find_counted"
        /\ shared_lock_granted(engine_mutex)
        /\ engine_mutex' = lock_shared(engine_mutex, t)
        /\ Goto(t, "find_locked")
        /\ UNCHANGED <<reply, n_ops, thr_caches, thr_counters, thr_domain, thr_quiet>>

\* category_index.find(); with a cache, its findSolution takes
\* std::shared_lock lock(cache_mutex)
FindCacheLock ==
    \E t \in Tasks :
        /\ task[t].pc = "find_locked"
        /\ IF find(category_index, "auth")
           THEN /\ shared_lock_granted(cache_mutex["auth"])
                /\ cache_mutex' = put(cache_mutex, "auth",
                                      lock_shared(cache_mutex["auth"], t))
                /\ Goto(t, "find_cache")
           ELSE /\ task' = [task EXCEPT ![t].pc = "find_done", ![t].value = nullptr]
                /\ UNCHANGED cache_mutex
        /\ UNCHANGED <<reply, n_ops, engine_mutex, category_index, thr_counters,
                       thr_domain, thr_quiet>>

\* the cache answers and releases cache_mutex; if (result) cache_hits++
FindLookup ==
    \E t \in Tasks :
        /\ task[t].pc = "find_cache"
        /\ LET result == SolutionCache_findSolution(category_index["auth"], "p1", now)
           IN  /\ cache_hits' = IF counts_as_hit(result) THEN cache_hits + 1
                                ELSE cache_hits
               /\ task' = [task EXCEPT ![t].pc = "find_done", ![t].value = result]
        /\ cache_mutex' = put(cache_mutex, "auth",
                              unlock_shared(cache_mutex["auth"], t))
        /\ UNCHANGED <<reply, n_ops, engine_mutex, category_index, total_lookups,
                       total_lookup_time_us, thr_domain, thr_quiet>>

\* the block ends and engine_mutex is released
FindUnlock ==
    \E t \in Tasks :
        /\ task[t].pc = "find_done"
        /\ engine_mutex' = unlock_shared(engine_mutex, t)
        /\ Goto(t, "find_unlocked")
        /\ UNCHANGED <<reply, n_ops, thr_caches, thr_counters, thr_domain, thr_quiet>>

\* total_lookup_time_us += duration.count(), then the result is returned
FindTime ==
    \E t \in Tasks :
        /\ task[t].pc = "find_unlocked"
        /\ total_lookup_time_us' = total_lookup_time_us + 1
        /\ Return(t, task[t].value)
        /\ UNCHANGED <<n_ops, engine_mutex, thr_caches, total_lookups, cache_hits,
                       thr_domain, thr_quiet>>

\* getStatistics: std::shared_lock lock(engine_mutex)
StatsLock ==
    \E t \in Tasks :
        /\ \/ task[t].pc = "called" /\ task[t].op = "getStatistics"
           \/ task[t].pc = "stats"
        /\ shared_lock_granted(engine_mutex)
        /\ engine_mutex' = lock_shared(engine_mutex, t)
        /\ Goto(t, "stats_locked")
        /\ UNCHANGED <<reply, n_ops, thr_caches, thr_counters, thr_domain, thr_quiet>>

\* the counters and category_index.size() are written to the stream
StatsCounters ==
    \E t \in Tasks :
        /\ task[t].pc = "stats_locked"
        /\ task' = [task EXCEPT
                      ![t].pc = IF find(category_index, "auth") THEN "stats_counted"
                                ELSE "stats_done",
                      ![t].value =
                          [getStatistics(category_index, total_lookups, cache_hits,
                                         total_lookup_time_us)
                             EXCEPT !.category_breakdown = EmptyMap]]
        /\ UNCHANGED <<reply, n_ops, engine_mutex, thr_caches, thr_counters,
                       thr_domain, thr_quiet>>

\* cache->getStats() takes std::shared_lock lock(cache_mutex)
StatsCacheLock ==
    \E t \in Tasks :
        /\ task[t].pc = "stats_counted"
        /\ shared_lock_granted(cache_mutex["auth"])
        /\ cache_mutex' = put(cache_mutex, "auth", lock_shared(cache_mutex["auth"], t))
        /\ Goto(t, "stats_cache")
        /\ UNCHANGED <<reply, n_ops, engine_mutex, category_index, thr_counters,
                       thr_domain, thr_quiet>>

\* getStats() returns the two sizes and releases cache_mutex
StatsCacheRead ==
    \E t \in Tasks :
        /\ task[t].pc = "stats_cache"
        /\ task' = [task EXCEPT
                      ![t].pc = "stats_done",
                      ![t].value =
                          [task[t].value EXCEPT !.category_breakdown =
                              getStatistics(category_index, 0, 0, 0).category_breakdown]]
        /\ cache_mutex' = put(cache_mutex, "auth",
                              unlock_shared(cache_mutex["auth"], t))
        /\ UNCHANGED <<reply, n_ops, engine_mutex, category_index, thr_counters,
                       thr_domain, thr_quiet>>

\* getStatistics returns, releasing engine_mutex
StatsUnlock ==
    \E t \in Tasks :
        /\ task[t].pc = "stats_done"
        /\ engine_mutex' = unlock_shared(engine_mutex, t)
        /\ Return(t, [engine_stats |-> task[t].value, domain |-> task[t].stats])
        /\ UNCHANGED <<n_ops, thr_caches, thr_counters, thr_domain, thr_quiet>>

\* clear: std::unique_lock lock(engine_mutex)
ClearLock ==
    \E t \in Tasks :
        /\ task[t].pc = "called" /\ task[t].op = "clear"
        /\ unique_lock_granted(engine_mutex)
        /\ engine_mutex' = lock(engine_mutex, t)
        /\ Goto(t, "clear_locked")
        /\ UNCHANGED <<reply, n_ops, thr_caches, thr_counters, thr_domain, thr_quiet>>

\* category_index.clear() destroys every cache
ClearIndex ==
    \E t \in Tasks :
        /\ task[t].pc = "clear_locked"
        /\ category_index' = EmptyMap
        /\ cache_mutex' = EmptyMap
        /\ Goto(t, "clear_index")
        /\ UNCHANGED <<reply, n_ops, engine_mutex, thr_counters, thr_domain, thr_quiet>>

\* total_lookups = 0; cache_hits = 0; total_lookup_time_us = 0: three stores
ClearCounter ==
    \E t \in Tasks :
        /\ task[t].pc \in {"clear_index", "clear_lookups", "clear_hits"}
        /\ total_lookups' = IF task[t].pc = "clear_index" THEN 0 ELSE total_lookups
        /\ cache_hits' = IF task[t].pc = "clear_lookups" THEN 0 ELSE cache_hits
        /\ total_lookup_time_us' =
              IF task[t].pc = "clear_hits" THEN 0 ELSE total_lookup_time_us
        /\ Goto(t, CASE task[t].pc = "clear_index" -> "clear_lookups"
                     [] task[t].pc = "clear_lookups" -> "clear_hits"
                     [] OTHER -> "clear_time")
        /\ UNCHANGED <<reply, n_ops, engine_mutex, thr_caches, thr_domain, thr_quiet>>

\* clear returns, releasing engine_mutex
ClearUnlock ==
    \E t \in Tasks :
        /\ task[t].pc = "clear_time"
        /\ engine_mutex' = unlock(engine_mutex, t)
        /\ Return(t, <<>>)
        /\ UNCHANGED <<n_ops, thr_caches, thr_counters, thr_domain, thr_quiet>>

\* createMemoryEntry: std::unique_lock lock(domain_mutex)
CreateLock ==
    \E t \in Tasks :
        /\ task[t].pc = "called" /\ task[t].op = "createMemoryEntry"
        /\ owns_lock(domain_mutex) /\ domain_readers = {}
        /\ domain_mutex' = t
        /\ Goto(t, "create_locked")
        /\ UNCHANGED <<reply, n_ops, engine_mutex, thr_caches, thr_counters,
                       domain_readers, memory_aggregates, event_queue, thr_quiet>>

\* commitAggregateEvents and the move into memory_aggregates; the block ends
\* and domain_mutex is released; storeSolution is next
CreateCommit ==
    \E t \in Tasks :
        /\ task[t].pc = "create_locked"
        /\ LET aggregate == MemoryEntryAggregate_create("p1", "s1", "auth",
                                                        system_clock_now)
               committed == commitAggregateEvents(aggregate, event_queue)
           IN  /\ event_queue' = committed.queue
               /\ memory_aggregates' = put(memory_aggregates, aggregate.id,
                                           committed.aggregate)
        /\ domain_mutex' = scope_exit(domain_mutex)
        /\ Goto(t, "store")
        /\ UNCHANGED <<reply, n_ops, engine_mutex, thr_caches, thr_counters,
                       domain_readers, thr_quiet>>

\* getDomainStatistics: std::shared_lock lock(domain_mutex)
DomainStatsLock ==
    \E t \in Tasks :
        /\ task[t].pc = "called" /\ task[t].op = "getDomainStatistics"
        /\ owns_lock(domain_mutex)
        /\ domain_readers' = domain_readers \cup {t}
        /\ Goto(t, "domain_stats_locked")
        /\ UNCHANGED <<reply, n_ops, engine_mutex, thr_caches, thr_counters,
                       domain_mutex, memory_aggregates, event_queue, thr_quiet>>

\* the two sizes are read; the block ends and domain_mutex is released;
\* getStatistics is next
DomainStatsRead ==
    \E t \in Tasks :
        /\ task[t].pc = "domain_stats_locked"
        /\ task' = [task EXCEPT
                      ![t].pc = "stats",
                      ![t].stats =
                          [memory_entries |-> Cardinality(DOMAIN memory_aggregates),
                           search_sessions |-> Cardinality(DOMAIN search_aggregates)]]
        /\ domain_readers' = domain_readers \ {t}
        /\ UNCHANGED <<reply, n_ops, engine_mutex, thr_caches, thr_counters,
                       domain_mutex, memory_aggregates, event_queue, thr_quiet>>

EngineThreadsNext ==
    \/ ThreadCall
    \/ StoreLock
    \/ StoreCacheLock
    \/ StoreAdd
    \/ StoreUnlock
    \/ StoreTime
    \/ FindCount
    \/ FindLock
    \/ FindCacheLock
    \/ FindLookup
    \/ FindUnlock
    \/ FindTime
    \/ StatsLock
    \/ StatsCounters
    \/ StatsCacheLock
    \/ StatsCacheRead
    \/ StatsUnlock
    \/ ClearLock
    \/ ClearIndex
    \/ ClearCounter
    \/ ClearUnlock
    \/ CreateLock
    \/ CreateCommit
    \/ DomainStatsLock
    \/ DomainStatsRead

SpecEngineThreads == Init /\ [][EngineThreadsNext]_vars

-----------------------------------------------------------------------------
(* Properties of the SolutionCache                                         *)

Min(a, b) == IF a < b THEN a ELSE b
Max(a, b) == IF a > b THEN a ELSE b

\* the last n elements of a sequence
LastN(v, n) == SubSeq(v, Len(v) - n + 1, Len(v))

ScopeMap(is_global) ==
    IF is_global THEN cache.global_solutions ELSE cache.project_solutions

\* C1: every key present in the project map or in the global map holds between
\* 1 and 5 solutions, which are exactly the last min(n,5) solutions inserted
\* under that key and scope (since the last clear), in insertion order, the
\* last element being the most recently inserted one.
C1_CacheCap ==
    \A is_global \in BOOLEAN :
        \A problem \in DOMAIN ScopeMap(is_global) :
            LET v == ScopeMap(is_global)[problem]
                h == inserted[<<is_global, problem>>]
            IN  /\ Len(v) >= 1 /\ Len(v) <= 5
                /\ v = LastN(h, Min(Len(h), 5))
                /\ v[Len(v)] = h[Len(h)]

\* a key that received a 6th insert: the head was evicted; a read came after
C1_Witness ==
    /\ last_call.op \in {"findSolution", "getAllSolutions"}
    /\ \E is_global \in BOOLEAN, problem \in Problems :
          /\ Len(inserted[<<is_global, problem>>]) = 6
          /\ problem \in DOMAIN ScopeMap(is_global)
          /\ Len(ScopeMap(is_global)[problem]) = 5
          /\ ScopeMap(is_global)[problem][1] = inserted[<<is_global, problem>>][2]

\* --- what the conflict-resolution claims speak of, for the key "p1"
Looked == last_call.op = "findSolution" /\ last_call.problem = "p1"
Res == last_call.result

HasProject == "p1" \in DOMAIN cache.project_solutions
HasGlobal == "p1" \in DOMAIN cache.global_solutions
\* the most recently inserted solution of each scope
P == inserted[<<FALSE, "p1">>][Len(inserted[<<FALSE, "p1">>])]
G == inserted[<<TRUE, "p1">>][Len(inserted[<<TRUE, "p1">>])]

DateOf(sol) == stoll(sol.created_date)
\* created less than n days before now
WithinDays(sol, n) == now - DateOf(sol) < n * 86400
AgeDiffInDays == abs(DateOf(P) - DateOf(G)) \div 86400
\* max(use_count) / min(use_count) > 3.0, for counts >= 1
RatioAbove3 ==
    Max(P.use_count, G.use_count) > 3 * Min(P.use_count, G.use_count)

\* C2: both scopes hold a solution and the latest project solution is within
\* 30 days of now: find_solution returns it with recent_project_priority,
\* whatever the global candidate's date and whatever the use counts.
C2_RecentProjectPriority ==
    (Looked /\ HasProject /\ HasGlobal /\ WithinDays(P, 30)) =>
        /\ Res.found
        /\ Res.solution = P
        /\ Res.strategy = "recent_project_priority"
        /\ Res.reason = <<"Recent project solution takes priority">>

\* rule 1 won against a newer global solution used more than 3 times as often
C2_Witness ==
    /\ Looked /\ HasProject /\ HasGlobal /\ WithinDays(P, 30)
    /\ DateOf(G) > DateOf(P)
    /\ G.use_count > 3 * P.use_count
    /\ Res.strategy = "recent_project_priority"

\* C3: both scopes hold a candidate, the project one is not within 30 days and
\* age_diff_days = floor(|project_time - global_time| / 86400) > 90:
\* newer_solution, the winner has the greater created_date, the reason reports
\* age_diff_days, whatever the use counts; a difference of 90 days or less
\* never gives newer_solution.
C3_NewerSolution ==
    (Looked /\ HasProject /\ HasGlobal /\ ~WithinDays(P, 30)) =>
        /\ AgeDiffInDays > 90 =>
              /\ Res.found
              /\ Res.strategy = "newer_solution"
              /\ Res.solution = (IF DateOf(P) > DateOf(G) THEN P ELSE G)
              /\ Res.reason = <<"Newer solution chosen (age difference: ",
                                AgeDiffInDays, " days)">>
        /\ AgeDiffInDays <= 90 => Res.strategy # "newer_solution"

\* project 200 days old, global 30 days old: the global one, 170 days; the
\* use counts (project used 4 times, global once) would have chosen the project
C3_Witness ==
    /\ Looked /\ HasProject /\ HasGlobal
    /\ now - DateOf(P) = 200 * 86400
    /\ now - DateOf(G) = 30 * 86400
    /\ P.use_count = 4 /\ G.use_count = 1
    /\ Res.strategy = "newer_solution"
    /\ Res.solution = G
    /\ Res.reason[2] = 170

\* C4: both candidates, project not within 30 days, age difference at most 90
\* days, use-count ratio strictly above 3: popularity_based with the candidate
\* of greater use_count and a reason listing both counts; a ratio of 3 or less
\* never gives popularity_based.
C4_PopularityBased ==
    (Looked /\ HasProject /\ HasGlobal /\ ~WithinDays(P, 30)
            /\ AgeDiffInDays <= 90) =>
        /\ RatioAbove3 =>
              /\ Res.found
              /\ Res.strategy = "popularity_based"
              /\ Res.solution = (IF P.use_count > G.use_count THEN P ELSE G)
              /\ Res.reason = <<"Popular solution chosen (use counts: project=",
                                P.use_count, ", global=", G.use_count, ")">>
        /\ ~RatioAbove3 => Res.strategy # "popularity_based"

\* both 120 days old, project used once, global 4 times: the global one
C4_Witness ==
    /\ Looked /\ HasProject /\ HasGlobal
    /\ now - DateOf(P) = 120 * 86400
    /\ now - DateOf(G) = 120 * 86400
    /\ P.use_count = 1 /\ G.use_count = 4
    /\ Res.strategy = "popularity_based"
    /\ Res.solution = G

\* C5: no rule fires: the project candidate with default_local_preference;
\* and the global candidate wins a two-scope resolution only as the strictly
\* newer one (newer_solution) or the strictly more used one (popularity_based).
C5_DefaultLocalPreference ==
    (Looked /\ HasProject /\ HasGlobal) =>
        /\ (~WithinDays(P, 30) /\ AgeDiffInDays <= 90 /\ ~RatioAbove3) =>
              /\ Res.found
              /\ Res.solution = P
              /\ Res.strategy = "default_local_preference"
              /\ Res.reason = <<"Default local preference">>
        /\ Res.found
        /\ Res.solution # P =>
              /\ Res.solution = G
              /\ \/ Res.strategy = "newer_solution" /\ DateOf(G) > DateOf(P)
                 \/ Res.strategy = "popularity_based"
                        /\ G.use_count > P.use_count

\* project at 120 days, global at 140 days, equal use counts
C5_Witness ==
    /\ Looked /\ HasProject /\ HasGlobal
    /\ now - DateOf(P) = 120 * 86400
    /\ now - DateOf(G) = 140 * 86400
    /\ P.use_count = G.use_count
    /\ Res.solution = P
    /\ Res.strategy = "default_local_preference"

\* C6: only the project scope holds the key: its last-inserted solution, with
\* default_local_preference and "Only project solution available", at any age.
C6_OnlyProject ==
    (Looked /\ HasProject /\ ~HasGlobal) =>
        /\ Res.found
        /\ Res.solution = P
        /\ Res.strategy = "default_local_preference"
        /\ Res.reason = <<"Only project solution available">>

\* a lone project solution older than 180 days, inserted after a newer one
C6_Witness ==
    /\ Looked /\ HasProject /\ ~HasGlobal
    /\ Len(inserted[<<FALSE, "p1">>]) >= 2
    /\ DateOf(inserted[<<FALSE, "p1">>][1]) > DateOf(P)
    /\ ~WithinDays(P, 180)
    /\ Res.solution = P

\* C7: find_solution returns none exactly when the key has no project solution
\* and has no global solution or its last-inserted global solution is not
\* within 180 days; a lone global solution within 180 days is returned with
\* default_local_preference and "Only recent global solution available".
C7_OnlyGlobal ==
    Looked =>
        /\ ~Res.found <=> (~HasProject /\ (~HasGlobal \/ ~WithinDays(G, 180)))
        /\ (~HasProject /\ HasGlobal /\ WithinDays(G, 180)) =>
              /\ Res.solution = G
              /\ Res.strategy = "default_local_preference"
              /\ Res.reason = <<"Only recent global solution available">>

\* a lone global solution exactly 180 days old: none
C7_Witness ==
    /\ Looked /\ ~HasProject /\ HasGlobal
    /\ now - DateOf(G) = 180 * 86400
    /\ ~Res.found

\* a cache holding nothing but the given candidates, inserted in either order
Fresh(has_p, p, has_g, g, project_first) ==
    LET addP(c) == IF has_p THEN SolutionCache_addSolution(c, "p1", p, FALSE) ELSE c
        addG(c) == IF has_g THEN SolutionCache_addSolution(c, "p1", g, TRUE) ELSE c
    IN  IF project_first THEN addG(addP(EmptyCache)) ELSE addP(addG(EmptyCache))

\* C8: find_solution leaves both scope maps unchanged, and what it returns is
\* what it returns on a cache holding only the latest project candidate and the
\* latest global candidate, inserted in either order, at the same now; a second
\* lookup of the key returns what the first returned.
C8_FindStep ==
    (last_call'.op = "findSolution") =>
        /\ cache' = cache
        /\ \A project_first \in BOOLEAN :
              last_call'.result =
                  SolutionCache_findSolution(
                      Fresh(HasProject, IF HasProject THEN P ELSE NoSolution,
                            HasGlobal, IF HasGlobal THEN G ELSE NoSolution,
                            project_first),
                      last_call'.problem, now)
        /\ (last_call.op = "findSolution"
                /\ last_call.problem = last_call'.problem) =>
              last_call'.result = last_call.result

C8_Deterministic == [][C8_FindStep]_vars

\* a lookup made with older solutions below both candidates
C8_Witness ==
    /\ Looked /\ HasProject /\ HasGlobal
    /\ Len(inserted[<<FALSE, "p1">>]) >= 2
    /\ inserted[<<FALSE, "p1">>][1] # P
    /\ Res.found

-----------------------------------------------------------------------------
(* Properties of the MemoryEngine                                          *)

EngineLooked == last_call.op = "MemoryEngine_findSolution" /\ last_call.problem = "p1"

\* a storeSolution("p1", c, s, false) returned true, no project-scope write
\* for p1 reached its category since and there was no clear(); the lookup
\* just made is findSolution("p1", c); when c is empty the categories were
\* not loaded anew in between
RoundTrip(c) ==
    /\ EngineLooked
    /\ last_call.category = c
    /\ tracked[c].valid

ReturnsStored(c) ==
    /\ Res.found
    /\ Res.solution.content = tracked[c].content
    /\ Res.solution.source = "project"

GlobalKnown(c) ==
    /\ tracked[c].category \in DOMAIN category_index
    /\ has_solutions(category_index[tracked[c].category].global_solutions, "p1")

-----------------------------------------------------------------------------
(* Properties of search sessions                                           *)

TerminalEvents == {"SearchSessionCompleted", "SearchSessionFailed"}
TerminalStatus == {"completed", "failed"}

\* every search session there is: those the domain engine stores and the one
\* a caller holds
Sessions ==
    { search_aggregates[id] : id \in DOMAIN search_aggregates }
        \cup (IF session = NoAggregate THEN {} ELSE {session})

\* a terminal event is the last event of the stream it is in
TerminalIsLast(stream) ==
    \A i \in DOMAIN stream : stream[i] \in TerminalEvents => i = Len(stream)

\* the domain call just made found its session in a terminal state
OnTerminated ==
    /\ domain_call.op \in {"addSearchLayer", "completeSearchSession"}
    /\ domain_call.before # NoAggregate
    /\ domain_call.before.session_status \in TerminalStatus

\* C10: a search session's event stream holds at most one terminal event and
\* no event after it; a domain call on a session that is completed or failed
\* returns false and leaves the session as it was.
C10_TerminalIsFinal ==
    /\ \A agg \in Sessions : TerminalIsLast(agg.raised)
    /\ OnTerminated =>
          /\ domain_call.returned = FALSE
          /\ search_aggregates[domain_call.session_id] = domain_call.before

-----------------------------------------------------------------------------
(* Properties of aggregates                                                *)

\* every memory entry there is: those the domain engine stores and the one a
\* caller holds
Entries ==
    { memory_aggregates[id] : id \in DOMAIN memory_aggregates }
        \cup (IF entry = NoAggregate THEN {} ELSE {entry})

Aggregates == Sessions \cup Entries

\* C11: the k-th event an aggregate raises carries version k, from 1 for the
\* creation event on, and the aggregate's version is the number of events it
\* has raised.
C11_VersionCounts ==
    \A agg \in Aggregates :
        /\ agg.version = Len(agg.stream)
        /\ \A k \in DOMAIN agg.stream : agg.stream[k].version = k

\* a memory entry just created and a search session with three events, the
\* last one raised after it had completed
C11_Witness ==
    /\ entry # NoAggregate
    /\ session # NoAggregate
    /\ entry.version = 1
    /\ entry.stream[1].event_type = "MemoryEntryCreated"
    /\ session.version = 3
    /\ session.stream[2].event_type = "SearchSessionCompleted"
    /\ session.stream[3].version = 3

\* a fresh aggregate built with the constructor arguments of agg
Blank(agg) ==
    IF IsMemoryEntry(agg)
    THEN MemoryEntryAggregate(agg.id, agg.problem, agg.stream[1].event_data.solution,
                              agg.category, agg.created_at)
    ELSE SearchSessionAggregate(agg.id, agg.query, agg.started_at)

\* the events applied in order, as a reconstruction from the log does
RECURSIVE Replay(_, _, _)
Replay(agg, events, i) ==
    IF i > Len(events) THEN agg
    ELSE Replay(virtual_applyEvent(agg, events[i]), events, i + 1)

\* the fields a replay is to give back
ReplayedState(agg) ==
    IF IsMemoryEntry(agg)
    THEN <<agg.solution, agg.confidence_score, agg.conflict_ids>>
    ELSE <<agg.layers_used, agg.result_ids, agg.session_status, agg.final_confidence>>

\* C12: applying an aggregate's full event stream in order to a fresh
\* aggregate built with the same constructor arguments yields the solution,
\* confidence_score and conflict_ids, respectively the layers_used,
\* result_ids, status and final_confidence, of the live aggregate.
C12_ReplayEquivalence ==
    \A agg \in Aggregates :
        ReplayedState(Replay(Blank(agg), agg.stream, 1)) = ReplayedState(agg)

\* two events one thread published, of one type, the first before the second
SamePublisher(e1, e2) ==
    /\ e1.event_type = e2.event_type
    /\ e1.event_data.publisher = e2.event_data.publisher
    /\ e1.event_data.seq < e2.event_data.seq

Published == {published[a] : a \in DOMAIN published}

C14_StartStopIdempotent ==
    /\ Cardinality(Live) <= 1
    /\ terminated \notin {"thread_assign", "join_not_joinable"}

AllHandlersReturn ==
    \A t \in DOMAIN handlers :
        \A k \in DOMAIN handlers[t] : handlers[t][k] = "returns"

\* C15: provided every handler returns, a stop() on a running bus always
\* terminates, wherever the worker is when stop() is called
C15_StopTerminates ==
    (caller["c1"] = "stop_store" /\ AllHandlersReturn)
        ~> (caller["c1"] = Idle \/ terminated # "")

\* C16: a failing handler never stops the bus: the failure goes no further
\* than the worker's catch, the worker keeps running, and the handlers of an
\* event are invoked one after the other in subscription order
C16_FailingHandlerSwallowed ==
    \A j \in DOMAIN delivered :
        /\ delivered[j].handler # "returns" => terminated # "handler_exception"
        /\ delivered[j].idx > 1 =>
              /\ delivered[j - 1].event = delivered[j].event
              /\ delivered[j - 1].idx = delivered[j].idx - 1

Created == domain_call.op = "createMemoryEntry"

\* the MemoryEntryCreated events published for an id, version 1
CreationEvents(entry_id) ==
    {i \in DOMAIN event_queue :
        /\ event_queue[i].aggregate_id = entry_id
        /\ event_queue[i].event_type = "MemoryEntryCreated"
        /\ event_queue[i].version = 1}

\* after createMemoryEntry(p, s, c): the entry read back, and the inner cache
EntryReadBack ==
    LET got == getMemoryEntry(memory_aggregates, domain_call.session_id)
    IN  /\ got # NoAggregate
        /\ got.problem = domain_call.problem
        /\ got.solution = domain_call.solution
        /\ got.category = domain_call.category
        /\ got.version = 1

InnerCacheHolds ==
    LET final == final_category(domain_call.problem, domain_call.category)
        result == MemoryEngine_findSolution(category_index, domain_call.problem,
                                            final, now)
    IN  /\ final \in DOMAIN category_index
        /\ has_solutions(category_index[final].project_solutions,
                         domain_call.problem)
        /\ back(category_index[final].project_solutions[domain_call.problem]).content
              = domain_call.solution
        /\ result.found
        /\ result.solution.content = domain_call.solution

\* C17 as stated: exactly one MemoryEntryCreated event carries the returned id
C17_CreateMemoryEntryOneEvent ==
    Created =>
        /\ EntryReadBack
        /\ Cardinality(CreationEvents(domain_call.session_id)) = 1
        /\ InnerCacheHolds

\* C17: after create_memory_entry(p, s, c) returns id, get_memory_entry(id)
\* yields p, s, c at version 1, the call has published one MemoryEntryCreated
\* event with that id and version 1, the only one with that id unless an
\* earlier create_memory_entry read the same millisecond, and find_solution(p,
\* c) returns s from the project scope of the inner cache
C17_CreateMemoryEntry ==
    Created =>
        /\ EntryReadBack
        /\ Len(event_queue) \in CreationEvents(domain_call.session_id)
        /\ domain_call.before = NoAggregate =>
              Cardinality(CreationEvents(domain_call.session_id)) = 1
        /\ InnerCacheHolds

\* a second entry is created, in a later millisecond than the first, with
\* the category left to the categorizer
C17_Witness ==
    /\ Created
    /\ domain_call.before = NoAggregate
    /\ domain_call.category = ""
    /\ category_order # <<>>
    /\ Cardinality(DOMAIN memory_aggregates) = 2

\* the step is a call of op whose id is not in the store it looks up
MissingId(ops, store) ==
    /\ n_session_calls' = n_session_calls + 1
    /\ domain_call'.op \in ops
    /\ ~find(store, domain_call'.session_id)

StoresUnchanged ==
    UNCHANGED <<event_queue, memory_aggregates, search_aggregates,
                category_index>>

\* C18: update_memory_entry, add_search_layer and complete_search_session
\* with an id that is not in the store they look up return false, publish
\* nothing and leave the aggregate stores, each stored aggregate and the inner
\* cache as they were; the service's getMemoryEntry on a missing id returns
\* the empty JSON object
C18_MissingIdNoEffect ==
    [][/\ MissingId({"updateMemoryEntry"}, memory_aggregates) =>
            domain_call'.returned = FALSE /\ StoresUnchanged
       /\ MissingId({"addSearchLayer", "completeSearchSession"},
                    search_aggregates) =>
            domain_call'.returned = FALSE /\ StoresUnchanged
       /\ MissingId({"getMemoryEntry"}, memory_aggregates) =>
            DOMAIN domain_call'.json = {} /\ StoresUnchanged]_vars

\* an update with an unknown id has returned false while an entry and a
\* session are stored
C18_Witness ==
    /\ domain_call.op = "updateMemoryEntry"
    /\ domain_call.returned = FALSE
    /\ memory_aggregates # EmptyMap
    /\ search_aggregates # EmptyMap
    /\ event_queue # <<>>

\* the events of v after its first n
After(v, n) == SubSeq(v, n + 1, Len(v))

\* the step is a domain operation that returned an id or true
DomainOp(ops) ==
    /\ n_session_calls' = n_session_calls + 1
    /\ domain_call'.op \in ops
    /\ domain_call'.returned

\* the events the aggregate of the step raised in the step
RaisedInStep(store_before, store_after) ==
    LET id == domain_call'.session_id
    IN  IF domain_call'.op \in {"createMemoryEntry", "startSearchSession"}
        THEN store_after[id].stream
        ELSE After(store_after[id].stream, Len(store_before[id].stream))

HeldDrained ==
    /\ drained'.calls = drained.calls + 1
    /\ entry # NoAggregate

\* C20: getUncommittedEvents() returns the events raised since the previous
\* call, in raise order, and leaves the list empty, so that a second call
\* with no mutator in between returns nothing; every event an aggregate of
\* the domain engine raises is published once, by the operation that raised
\* it; and no stored aggregate has uncommitted events once an operation
\* has returned
C20_DrainedExactlyOnce ==
    [][/\ entry' # NoAggregate =>
            drained'.all \o entry'.uncommitted_events = entry'.stream
       /\ HeldDrained =>
            /\ drained'.last = After(entry.stream, Len(drained.all))
            /\ entry'.uncommitted_events = <<>>
            /\ entry.stream = drained.all => drained'.last = <<>>
       /\ DomainOp({"createMemoryEntry", "updateMemoryEntry"}) =>
            event_queue' = event_queue \o
                RaisedInStep(memory_aggregates, memory_aggregates')
       /\ DomainOp({"startSearchSession", "addSearchLayer",
                    "completeSearchSession"}) =>
            event_queue' = event_queue \o
                RaisedInStep(search_aggregates, search_aggregates')
       /\ ~DomainOp({"createMemoryEntry", "updateMemoryEntry",
                     "startSearchSession", "addSearchLayer",
                     "completeSearchSession"}) =>
            event_queue' = event_queue
       /\ \A id \in DOMAIN memory_aggregates' :
            memory_aggregates'[id].uncommitted_events = <<>>
       /\ \A id \in DOMAIN search_aggregates' :
            search_aggregates'[id].uncommitted_events = <<>>]_vars

\* one call has returned the two events a held entry had raised, in order
C20_Witness ==
    /\ entry # NoAggregate
    /\ Len(drained.last) = 2
    /\ drained.last[1].version = 1
    /\ drained.last[2].version = 2
    /\ entry.uncommitted_events = <<>>

\* C19: under any interleaving of domain operations from several threads, the
\* events of one aggregate are enqueued, and reach each handler, in strictly
\* increasing version order, and the events of one commit are contiguous in
\* the queue
C19_RaiseOrder ==
    /\ \A i, j \in DOMAIN published :
          i < j /\ published[i].uid = published[j].uid =>
              published[i].version < published[j].version
    /\ \A i, k \in DOMAIN published :
          i < k /\ published[i].op_no = published[k].op_no =>
              \A j \in i..k : published[j].op_no = published[i].op_no
    /\ \A i, j \in DOMAIN delivered :
          /\ i < j
          /\ delivered[i].event.uid = delivered[j].event.uid
          /\ delivered[i].event.event_type = delivered[j].event.event_type
          /\ delivered[i].idx = delivered[j].idx
          => delivered[i].event.version < delivered[j].event.version

\* the handler of MemoryEntryUpdated has received two updates of one entry,
\* made by two threads
C19_Witness ==
    \E i, j \in DOMAIN delivered :
        /\ i < j
        /\ delivered[i].event.uid = delivered[j].event.uid
        /\ delivered[i].event.event_type = "MemoryEntryUpdated"
        /\ delivered[j].event.event_type = "MemoryEntryUpdated"
        /\ delivered[i].event.op_no < delivered[j].event.op_no

-----------------------------------------------------------------------------
(* Properties of the categorizer                                           *)

\* the categories that own a compiled pattern found in the message
Matching(message) ==
    { c \in DOMAIN category_patterns :
        \E k \in DOMAIN category_patterns[c] :
            regex_search(message, category_patterns[c][k]) }

\* C21: categorize returns errors_uncategorised when no loaded pattern
\* matches the message, and otherwise a category that owns a matching
\* pattern; while the loaded set is unchanged a message is always given the
\* same category
C21_Categorize ==
    /\ reply.op = "categorize" =>
          IF Matching(reply.args) = {}
          THEN reply.value = UNCATEGORISED
          ELSE reply.value \in Matching(reply.args)
    /\ \A message \in DOMAIN answers : Cardinality(answers[message]) = 1

\* a message that two categories match has been categorized
C21_Witness ==
    /\ reply.op = "categorize"
    /\ Cardinality(Matching(reply.args)) = 2
    /\ reply.value \in Matching(reply.args)

\* the positions of the patterns of a list that compile
ValidAt(list) == { i \in DOMAIN list : regex_valid(list[i]) }

\* kept is list without the patterns that do not compile, in listed order
KeepsValid(kept, list) ==
    /\ Len(kept) = Cardinality(ValidAt(list))
    /\ \E idx \in [DOMAIN kept -> DOMAIN list] :
          /\ \A i, j \in DOMAIN kept : i < j => idx[i] < idx[j]
          /\ \A i \in DOMAIN kept : idx[i] \in ValidAt(list) /\ kept[i] = list[idx[i]]

\* the listed categories with a pattern that compiles and is found in message
ListedMatching(message) ==
    { c \in DOMAIN loaded :
        \E i \in ValidAt(loaded[c]) : regex_search(message, loaded[c][i]) }

\* C22: loading a list that mixes patterns that compile with patterns that
\* do not succeeds, drops exactly those that do not compile and keeps the
\* others in listed order; a message only such a category matches is
\* categorized to it
C22_InvalidPatternsDropped ==
    /\ reply.op = "initialize" => reply.value = TRUE
    /\ \A c \in DOMAIN loaded :
          loaded[c] # <<>> =>
             /\ c \in DOMAIN category_patterns
             /\ KeepsValid(category_patterns[c], loaded[c])
    /\ reply.op = "categorize" =>
          \A c \in ListedMatching(reply.args) :
              ListedMatching(reply.args) = {c} => reply.value = c

\* a category listed with a pattern that does not compile before one that
\* does has been given a message its valid pattern matches
C22_Witness ==
    /\ reply.op = "categorize"
    /\ \E c \in DOMAIN loaded :
          /\ loaded[c] = <<"(", "p1">>
          /\ ListedMatching(reply.args) = {c}
          /\ reply.value = c

\* C23: a categorize call that runs concurrently with loadCategories searches
\* a completely loaded set, the one loaded when the call began or one loaded
\* since, never a cleared or partly rebuilt map; once a load has returned the
\* map holds the patterns of its argument and no other
C23_LoadAtomic ==
    /\ \A t \in Tasks :
          task[t].pc = "return" =>
             \E k \in task[t].from..Len(sets) : task[t].seen = sets[k]
    /\ patterns_mutex.writer = "" =>
          category_patterns = ErrorCategorizer_loadCategories(loaded)

\* a categorize call that began while another thread was rebuilding the map
\* has searched the set that load built
C23_Witness ==
    \E t \in Tasks :
        /\ task[t].pc = "return"
        /\ task[t].from < Len(sets)
        /\ task[t].seen = sets[Len(sets)]
        /\ task[t].seen # sets[task[t].from]

-----------------------------------------------------------------------------
(* Properties of the scorer and of the ranked path                         *)

InUnit(x) == 0 <= x /\ x <= ONE

\* C29: each of the five sub-scores lies in [0, 1], and so does the
\* combined score 0.25 completeness + 0.20 clarity + 0.25 specificity
\* + 0.15 reliability + 0.15 context relevance, for every text, context, age
\* (also a date in the future or more than 365 days back) and use count
C29_ScoreBounds ==
    reply.op = "scoreSolution" =>
        LET metrics == reply.value.metrics
        IN  /\ InUnit(metrics.completeness_score)
            /\ InUnit(metrics.clarity_score)
            /\ InUnit(metrics.specificity_score)
            /\ InUnit(metrics.reliability_score)
            /\ InUnit(metrics.context_relevance)
            /\ 0 <= reply.value.score /\ reply.value.score <= 100 * ONE
            /\ reply.value.score =
                  25 * metrics.completeness_score + 20 * metrics.clarity_score
                  + 25 * metrics.specificity_score + 15 * metrics.reliability_score
                  + 15 * metrics.context_relevance

\* a solution dated in the future and used six times has been scored: its
\* reliability would pass 1 without the clamp
C29_Witness ==
    /\ reply.op = "scoreSolution"
    /\ reply.args.age < 0
    /\ reply.args.use_count > 5
    /\ reply.value.metrics.reliability_score = ONE

\* C24: a findSolution call adds exactly 1 to total_lookups, adds 1 to
\* cache_hits exactly when it returns a result, and leaves the set of
\* category entries as it was; storeSolution, loadSolutions,
\* findRankedSolutions, getSuggestions and getStatistics leave both counters
\* as they were.
C24_LookupCounters ==
    [][ /\ reply'.op = "findSolution" =>
             /\ total_lookups' = total_lookups + 1
             /\ cache_hits' = cache_hits + (IF reply'.value.found THEN 1 ELSE 0)
             /\ DOMAIN category_index' = DOMAIN category_index
        /\ reply'.op \in {"storeSolution", "loadSolutions", "findRankedSolutions",
                          "getSuggestions", "getStatistics"} =>
             UNCHANGED <<total_lookups, cache_hits>> ]_vars

\* a lookup that found the category's cache and in it only a global solution
\* too old to return: counted as a lookup, not as a hit
C24_Witness ==
    /\ reply.op = "findSolution"
    /\ reply.args[2] = "auth"
    /\ find(category_index, "auth")
    /\ has_solutions(category_index["auth"].global_solutions, "p1")
    /\ ~reply.value.found
    /\ total_lookups = 1
    /\ cache_hits = 0

\* the solutions getAllSolutions yields for the ranked call the reply is of
StoredFor(problem, category) ==
    LET resolved == IF category = "" THEN categorizeError(problem) ELSE category
    IN  IF find(category_index, resolved)
        THEN SolutionCache_getAllSolutions(category_index[resolved], problem)
        ELSE <<>>

ScoreOf(solution, problem) ==
    scoreSolution(solution, Text(solution.content), ProblemContext(problem), now)

\* the ways to find the returned entries among the stored solutions, each
\* stored solution taken at most once
Picks(returned, stored) ==
    { pick \in [DOMAIN returned -> DOMAIN stored] :
        /\ \A i, j \in DOMAIN returned : i # j => pick[i] # pick[j]
        /\ \A i \in DOMAIN returned :
              returned[i].result.solution = stored[pick[i]] }

\* C26: findRankedSolutions(problem, category, max) with max >= 0 returns
\* exactly min(max, n) entries, n the number of solutions getAllSolutions
\* yields in the resolved category (0 without a cache); scores do not
\* increase along the result; each entry is one of the stored solutions, with
\* its score, tagged DEFAULT_LOCAL_PREFERENCE and "AI-ranked result"; no
\* omitted candidate scores strictly more than a returned one.
C26_RankedResult ==
    reply.op = "findRankedSolutions" =>
        LET problem == reply.args[1]
            max_suggestions == reply.args[3]
            stored == StoredFor(problem, reply.args[2])
            returned == reply.value
        IN  /\ max_suggestions >= 0 =>
                 Len(returned) = std_min(max_suggestions, Len(stored))
            /\ \A i \in DOMAIN returned :
                 /\ i > 1 => returned[i - 1].score >= returned[i].score
                 /\ returned[i].result.found
                 /\ returned[i].result.strategy = DEFAULT_LOCAL_PREFERENCE
                 /\ returned[i].result.reason = <<"AI-ranked result">>
                 /\ returned[i].score = ScoreOf(returned[i].result.solution, problem)
            /\ \E pick \in Picks(returned, stored) :
                 \A k \in DOMAIN stored :
                    (\A i \in DOMAIN returned : pick[i] # k) =>
                       \A i \in DOMAIN returned :
                          ScoreOf(stored[k], problem) <= returned[i].score

\* three candidates cut to two: the global one, stored last, comes first with
\* the higher score, and of the two project ones one is left out
C26_Witness ==
    /\ reply.op = "findRankedSolutions"
    /\ reply.args[3] = 2
    /\ Len(StoredFor(reply.args[1], reply.args[2])) = 3
    /\ Len(reply.value) = 2
    /\ reply.value[1].score > reply.value[2].score
    /\ reply.value[1].result.solution = StoredFor(reply.args[1], reply.args[2])[3]

\* C27: candidates with equal scores come out of findRankedSolutions in
\* their getAllSolutions order (project before global, older before newer),
\* and the same order decides which of them a truncation keeps: the result
\* is the stable arrangement cut to max.
C27_StableSort ==
    reply.op = "findRankedSolutions" =>
        LET stored == StoredFor(reply.args[1], reply.args[2])
            returned == reply.value
        IN  \E pick \in Picks(returned, stored) :
              /\ \A i, j \in DOMAIN returned :
                    (i < j /\ returned[i].score = returned[j].score) =>
                       pick[i] < pick[j]
              /\ \A k \in DOMAIN stored :
                    (\A i \in DOMAIN returned : pick[i] # k) =>
                       \A i \in DOMAIN returned :
                          ScoreOf(stored[k], reply.args[1]) = returned[i].score =>
                             pick[i] < k

-----------------------------------------------------------------------------
(* Properties of the engine under concurrent calls                         *)

holds_engine(t) == engine_mutex.writer = t \/ t \in engine_mutex.readers
holds_cache(t) ==
    \E c \in DOMAIN cache_mutex : cache_mutex[c].writer = t \/ t \in cache_mutex[c].readers
holds_domain(t) == domain_mutex = t \/ t \in domain_readers

\* where a thread is between the first write of clear and its last
MidClear == {"clear_index", "clear_lookups", "clear_hits"}

\* where a thread reads or writes the caches and counters under a lock
Observing ==
    {"store_locked", "store_cache", "store_added", "find_locked", "find_cache",
     "find_done", "stats_locked", "stats_counted", "stats_cache", "stats_done",
     "clear_locked", "clear_index", "clear_lookups", "clear_hits", "clear_time"}

\* C25: while clear is between dropping the caches and its last counter
\* reset, no getStatistics, findSolution or storeSolution is where it reads
\* the caches or the counters under the lock, so none sees the caches dropped
\* with a counter not yet reset; once clear has returned with no other call
\* in progress since it began, there is no category, the three counters are
\* 0 and findSolution finds nothing.
C25_ClearAtomic ==
    /\ \A t, u \in Tasks :
          (t # u /\ task[t].pc \in MidClear) => task[u].pc \notin Observing
    /\ ( /\ reply.op = "clear"
         /\ reply.args.alone
         /\ \A t \in Tasks : task[t].pc = "idle" ) =>
            /\ category_index = EmptyMap
            /\ total_lookups = 0
            /\ cache_hits = 0
            /\ total_lookup_time_us = 0
            /\ \A category \in {"auth", "net", "errors_uncategorised"} :
                  ~MemoryEngine_findSolution(category_index, "p1", category, now).found

\* clear has dropped the caches and not yet reset total_lookups, which a
\* lookup has just incremented; that lookup waits for the lock
C25_Witness ==
    \E t, u \in Tasks :
        /\ task[t].pc = "clear_index"
        /\ category_index = EmptyMap
        /\ total_lookups > 0
        /\ task[u].pc = "find_counted"

\* C30: a thread that acquires engine_mutex holds no cache_mutex, and a
\* thread that holds a cache_mutex holds engine_mutex; no thread holds
\* domain_mutex and engine_mutex at once; whenever a call is in progress,
\* some call in progress can take its next step.
C30_LockDiscipline ==
    /\ [][ \A t \in Tasks :
              (~holds_engine(t) /\ holds_engine(t)') => ~holds_cache(t) ]_vars
    /\ [](\A t \in Tasks :
              /\ holds_cache(t) => holds_engine(t)
              /\ ~(holds_domain(t) /\ holds_engine(t)))
    /\ []((\E t \in Tasks : task[t].pc # "idle") =>
              ENABLED (EngineThreadsNext /\ n_ops' = n_ops))

\* one thread is inside a cache under engine_mutex while the other, in
\* createMemoryEntry, has released domain_mutex and waits for engine_mutex
C30_Witness ==
    \E t, u \in Tasks :
        /\ holds_cache(t) /\ holds_engine(t)
        /\ task[u].op = "createMemoryEntry"
        /\ task[u].pc = "store"
        /\ ~holds_domain(u)

\* C35: in every state getStatistics can read, that is whenever no clear is
\* between its first counter store and its last, cache_hits <= total_lookups,
\* also when clear has run alongside lookups in progress; so the hit rate
\* getStatistics writes is at most 1.
C35_HitsWithinLookups ==
    (\A t \in Tasks : task[t].pc \notin MidClear) => cache_hits <= total_lookups


-----------------------------------------------------------------------------
(* Properties of the domain engine's ids, updates and searches              *)

\* the step is a call of op that made an id which is already a key of store
SameMillisecond(op, store) ==
    /\ DomainOp({op})
    /\ find(store, domain_call'.session_id)

\* the events of one type published for an id
EventsFor(queue, type, id) ==
    {i \in DOMAIN queue :
        queue[i].aggregate_id = id /\ queue[i].event_type = type}

\* the project solutions the inner cache holds for the problem of a call
ProjectList(index, problem, category) ==
    at(cache_of(index, final_category(problem, category)).project_solutions,
       problem)

\* C34: the id of createMemoryEntry and of startSearchSession is the prefix
\* and the millisecond read, nothing else; a call that reads the millisecond
\* of an earlier call gets the earlier id, replaces the stored aggregate so
\* that the store keeps its size, and getMemoryEntry(id) yields the later
\* entry, while the creation event of each call is in the bus queue and the
\* solution of each call was appended to the inner cache
C34_SameMillisecondId ==
    [][LET id == domain_call'.session_id
       IN  /\ DomainOp({"createMemoryEntry"}) =>
                id = <<"mem_", to_string_ms(system_clock_now)>>
           /\ DomainOp({"startSearchSession"}) =>
                id = <<"search_", to_string_ms(system_clock_now)>>
           /\ SameMillisecond("createMemoryEntry", memory_aggregates) =>
                LET got == getMemoryEntry(memory_aggregates', id)
                    list == ProjectList(category_index, domain_call'.problem,
                                        domain_call'.category)
                    list_after == ProjectList(category_index', domain_call'.problem,
                                              domain_call'.category)
                IN  /\ DOMAIN memory_aggregates' = DOMAIN memory_aggregates
                    /\ got.problem = domain_call'.problem
                    /\ got.solution = domain_call'.solution
                    /\ got.category = domain_call'.category
                    /\ got.version = 1
                    /\ Cardinality(EventsFor(event_queue, "MemoryEntryCreated", id)) >= 1
                    /\ EventsFor(event_queue', "MemoryEntryCreated", id) =
                          EventsFor(event_queue, "MemoryEntryCreated", id)
                          \cup {Len(event_queue')}
                    /\ Len(event_queue') = Len(event_queue) + 1
                    /\ list_after = EvictOldest(Append(list, back(list_after)))
                    /\ back(list_after).content = domain_call'.solution
           /\ SameMillisecond("startSearchSession", search_aggregates) =>
                /\ DOMAIN search_aggregates' = DOMAIN search_aggregates
                /\ search_aggregates'[id].version = 1
                /\ search_aggregates'[id].layers_used = <<>>
                /\ Cardinality(EventsFor(event_queue, "SearchSessionStarted", id)) >= 1
                /\ EventsFor(event_queue', "SearchSessionStarted", id) =
                      EventsFor(event_queue, "SearchSessionStarted", id)
                      \cup {Len(event_queue')}
                /\ Len(event_queue') = Len(event_queue) + 1]_vars

\* a second entry with another solution was created in the millisecond of the
\* first: one entry is stored, two creation events carry its id
C34_Witness ==
    /\ Created
    /\ domain_call.before # NoAggregate
    /\ domain_call.before.solution # domain_call.solution
    /\ Cardinality(DOMAIN memory_aggregates) = 1
    /\ Cardinality(EventsFor(event_queue, "MemoryEntryCreated",
                             domain_call.session_id)) = 2
    /\ Len(ProjectList(category_index, domain_call.problem,
                       domain_call.category)) >= 1


\* what the three lookups of the inner cache yield for a problem
InnerLookups(index, problem, category, t) ==
    [found |-> MemoryEngine_findSolution(index, problem,
                                         final_category(problem, category), t),
     ranked |-> findRankedSolutions(index, problem, category, 5, t),
     searched |-> searchWithContext(index, problem, "ctx", 5, t)]

\* C36: updateMemoryEntry on a stored id replaces the aggregate's solution,
\* raises its version by 1 and publishes one MemoryEntryUpdated event; the
\* other aggregates, the sessions and the inner cache stay as they were, so
\* findSolution, findRankedSolutions and searchWithContext for the entry's
\* problem yield after the update what they yielded before it, the solution
\* of the creation when that was the last one stored for the problem, while
\* getMemoryEntry yields the new solution
C36_UpdateOnlyAggregate ==
    [][DomainOp({"updateMemoryEntry"}) =>
         LET id == domain_call'.session_id
             old == domain_call'.before
             got == getMemoryEntry(memory_aggregates', id)
             lookups == InnerLookups(category_index, old.problem, old.category, now)
         IN  /\ old = memory_aggregates[id]
             /\ got = memory_aggregates'[id]
             /\ got.solution = "s2"
             /\ got.version = old.version + 1
             /\ got.problem = old.problem /\ got.category = old.category
             /\ \A other \in DOMAIN memory_aggregates' \ {id} :
                   /\ other \in DOMAIN memory_aggregates
                   /\ memory_aggregates'[other] = memory_aggregates[other]
             /\ Len(event_queue') = Len(event_queue) + 1
             /\ After(event_queue', Len(event_queue)) # <<>>
             /\ back(event_queue').event_type = "MemoryEntryUpdated"
             /\ back(event_queue').aggregate_id = id
             /\ back(event_queue').version = got.version
             /\ SubSeq(event_queue', 1, Len(event_queue)) = event_queue
             /\ UNCHANGED <<category_index, category_patterns, category_order,
                            total_lookups, cache_hits, search_aggregates>>
             /\ InnerLookups(category_index', got.problem, got.category, now')
                   = lookups
             /\ (/\ old.version = 1
                 /\ lookups.found # nullptr
                 /\ back(ProjectList(category_index, old.problem,
                                     old.category)).content = old.solution)
                   => lookups.found.solution.content = old.solution]_vars

\* an entry created with s1 was updated to s2: getMemoryEntry yields s2 and
\* the inner cache still answers s1
C36_Witness ==
    /\ domain_call.op = "updateMemoryEntry"
    /\ domain_call.returned
    /\ domain_call.before.solution = "s1"
    /\ domain_call.before.version = 1
    /\ getMemoryEntry(memory_aggregates, domain_call.session_id).solution = "s2"
    /\ LET found == MemoryEngine_findSolution(category_index,
                        domain_call.before.problem,
                        final_category(domain_call.before.problem,
                                       domain_call.before.category), now)
       IN  found # nullptr /\ found.solution.content = "s1"


-----------------------------------------------------------------------------
(* The engine loaded by a C++ caller.  loadSolutions takes Solution objects *)
(* the caller built: with either constructor and either tag, whatever scope *)
(* they are then loaded under, and with use_count, a public member, as the  *)
(* caller left it.                                                          *)

CallerUseCounts == {0, 1}

CallerSolutions ==
    { [Solution("fix", tag, now) EXCEPT !.use_count = count] :
        tag \in {"project", "global"}, count \in CallerUseCounts }

EngineLoadCallerBuilt ==
    /\ \E is_global \in BOOLEAN, solution \in CallerSolutions :
          LoadSolutions("auth", [problem \in {"p1"} |-> solution], is_global)
    /\ UNCHANGED <<now, cache, inserted, n_adds, session_vars, bus_vars>>

LoadNext ==
    \/ EngineStore
    \/ EngineLoadCallerBuilt
    \/ EngineFind
    \/ EngineTick

SpecLoad == Init /\ [][LoadNext]_vars

\* the solutions a scope map holds
HeldIn(scope_map) ==
    UNION { { scope_map[problem][i] : i \in DOMAIN scope_map[problem] } :
              problem \in DOMAIN scope_map }

\* C33: every solution in a scope map of a cache has use_count >= 1 and the
\* source tag of the scope whose map holds it, after any storeSolution and
\* loadSolutions calls
C33_UseCountAndTag ==
    \A category \in DOMAIN category_index :
        /\ \A solution \in HeldIn(category_index[category].project_solutions) :
              solution.use_count >= 1 /\ solution.source = "project"
        /\ \A solution \in HeldIn(category_index[category].global_solutions) :
              solution.use_count >= 1 /\ solution.source = "global"


SearchMax == {0, 1, 5, 10}

\* the solution of the entry the last call created is among the suggestions
ReturnsCreated(result) ==
    \E i \in DOMAIN result.ranked :
        result.ranked[i].result.solution.content = domain_call.solution

\* what searchMemories(p, c, max) may return after createMemoryEntry(p, s, c)
SearchesOfCreated(max_results) ==
    searchMemories(category_index, domain_call.problem, domain_call.category,
                   max_results, now)

-----------------------------------------------------------------------------
(* Properties of delivery by the bus                                        *)

\* the places an event is waiting in: positions of the queue, and workers
\* that popped it and are not done with it
InQueue(event) == { k \in DOMAIN event_queue : event_queue[k] = event }
InHand(event) == { w \in Workers : worker[w].event = event }
Pending(event) == InQueue(event) # {} \/ InHand(event) # {}

Invocations(event, idx) ==
    { j \in DOMAIN delivered :
        delivered[j].event = event /\ delivered[j].idx = idx }

\* the event has left the queue and each handler subscribed to its type was
\* invoked with it once, the handlers in subscription order
HandledOnce(event) ==
    /\ ~Pending(event)
    /\ \A idx \in DOMAIN at(handlers, event.event_type) :
          /\ Cardinality(Invocations(event, idx)) = 1
          /\ \A j \in Invocations(event, idx) :
                delivered[j].handler = handlers[event.event_type][idx]
    /\ \A i, j \in DOMAIN delivered :
          (i < j /\ delivered[i].event = event /\ delivered[j].event = event)
             => delivered[i].idx < delivered[j].idx

\* never more than once: an event is in one place at most, no handler is
\* invoked twice with it, and a worker about to block has seen an empty queue
\* that no publish has added to since
AtMostOnce ==
    /\ \A i \in DOMAIN published :
          /\ Cardinality(InQueue(published[i])) + Cardinality(InHand(published[i])) <= 1
          /\ \A idx \in 1..MaxSubscriptions :
                Cardinality(Invocations(published[i], idx)) <= 1
    /\ \A w \in Workers : at_pc(w, "about_to_block") => event_queue = <<>>

\* an event that has left the queue does not come back
NeverRequeued ==
    \A i \in DOMAIN published :
        ~Pending(published[i]) => ~Pending(published[i])'

\* C32: on a bus that has been started, every published event is eventually
\* dequeued, once, and every handler subscribed to its type is invoked with
\* it once, in subscription order, unless stop() is called first (or a
\* handler ends the process); no publish is missed by a worker about to
\* block, and an event of a type without handlers is dequeued and skipped
C32_EventualDelivery ==
    /\ []AtMostOnce
    /\ [][NeverRequeued]_vars
    /\ \A i \in 1..MaxPublished :
          (Len(published) >= i /\ running /\ Live # {})
             ~> (\/ Len(published) >= i /\ HandledOnce(published[i])
                 \/ ~running
                 \/ terminated # "")

\* two events were published to a started bus with two handlers that
\* return: both events are gone from the queue, each handled by both
C32_Witness ==
    /\ running
    /\ terminated = ""
    /\ Len(published) = MaxPublished
    /\ Len(at(handlers, "A")) = 2
    /\ Len(delivered) = 2 * MaxPublished
    /\ \A i \in DOMAIN published : HandledOnce(published[i])


-----------------------------------------------------------------------------
(* The domain engine with handlers that call back.  After initializeDomain() *)
(* the application threads subscribe handlers through subscribeToEvents(),   *)
(* create, update and read memory entries and read the bus statistics,      *)
(* while the worker delivers.  A handler returns at once, publishes an      *)
(* event of its own, calls updateMemoryEntry() for the aggregate of its     *)
(* event, or calls getMemoryEntry() for it and then looks its problem up in *)
(* the inner cache.  Every lock operation, every access to the handler      *)
(* table and to an aggregate outside a lock is a step of its own.           *)

HandlerBodies == {"publishes", "updates", "gets"}

\* the worker as a holder of domain_mutex
WORKER == "worker"

\* an application thread as a holder of queue_mutex
thread_number(t) == IF t = "t1" THEN -1 ELSE -2

hub_fixed == <<cache_vars, category_patterns, category_order, category_index,
               n_calls, tracked, total_lookup_time_us, now_ms,
               search_aggregates, session, domain_call, entry, drained, reply,
               loaded, answers, task, patterns_mutex, engine_mutex,
               cache_mutex, sets, n_ops, running, processor_thread, caller,
               n_bus_calls>>
hub_counters == <<total_lookups, cache_hits>>
hub_bus == <<handlers, queue_mutex, queue_cv, worker, delivered, published,
             event_queue>>
hub_locks == <<domain_mutex, domain_readers>>

Hub ==
    /\ terminated = ""
    /\ UNCHANGED hub_fixed

\* a call by an application thread begins
HubBegun(t, call) ==
    /\ Hub
    /\ thread[t].pc = "idle"
    /\ running
    /\ n_session_calls < MaxThreadOps
    /\ n_session_calls' = n_session_calls + 1
    /\ thread' = [thread EXCEPT ![t] = call]
    /\ UNCHANGED <<hub_counters, hub_bus, hub_locks, memory_aggregates,
                   terminated>>

\* a step of a call in progress that leaves the bus alone
HubThread(t, pc) ==
    /\ Hub
    /\ thread[t].pc = pc
    /\ UNCHANGED <<hub_counters, n_session_calls>>

\* mutant: a shared lock is granted while a writer holds the mutex
shared_granted_always(mutex) == TRUE

\* std::shared_lock<std::shared_mutex>: granted once no writer holds it
shared_granted(mutex) == mutex = ""

\* std::unique_lock<std::shared_mutex>: no writer and no reader holds it
exclusive_granted == domain_mutex = "" /\ domain_readers = {}

\* the threads whose next step writes the handler table
Inserting == { t \in DomainThreads : thread[t].pc = "push_back" }

\* the next step of some thread or worker reads the handler table without
\* holding queue_mutex
ReadingTable ==
    \/ \E t \in DomainThreads : thread[t].pc = "read_handlers"
    \/ \E w \in Workers : worker[w].pc = "dispatch"

\* --- subscribeToEvents(): EventBus::subscribe
SubscribeToEvents(t) ==
    /\ thread[t].pc = "idle"
    /\ \E handler \in HandlerBodies :
          HubBegun(t, [pc |-> "subscribe_lock", op |-> "subscribeToEvents",
                       event_type |-> "MemoryEntryCreated", handler |-> handler])

\* std::lock_guard<std::mutex> lock(queue_mutex)
SubscribeLock(t) ==
    /\ HubThread(t, "subscribe_lock")
    /\ queue_mutex = NoThread
    /\ queue_mutex' = thread_number(t)
    /\ thread' = [thread EXCEPT ![t].pc = "push_back"]
    /\ UNCHANGED <<handlers, queue_cv, worker, delivered, published,
                   event_queue, hub_locks, memory_aggregates, terminated>>

\* handlers[event_type].push_back(handler).  A read of the table that is not
\* ordered with this write is a data race: the behaviour is undefined, the
\* process goes on or it does not
SubscribeInsert(t) ==
    /\ HubThread(t, "push_back")
    /\ handlers' = subscribe(handlers, thread[t].event_type, thread[t].handler)
    /\ thread' = [thread EXCEPT ![t].pc = "subscribe_unlock"]
    /\ IF ReadingTable
       THEN terminated' \in {"", "data_race"}
       ELSE UNCHANGED terminated
    /\ UNCHANGED <<queue_mutex, queue_cv, worker, delivered, published,
                   event_queue, hub_locks, memory_aggregates>>

SubscribeUnlock(t) ==
    /\ HubThread(t, "subscribe_unlock")
    /\ queue_mutex' = NoThread
    /\ thread' = [thread EXCEPT ![t] = IdleThread]
    /\ UNCHANGED <<handlers, queue_cv, worker, delivered, published,
                   event_queue, hub_locks, memory_aggregates, terminated>>

\* --- EventBus::getStatistics(), called by getDomainStatistics(): the sizes
\* of the table and of the queue and the flag, read without a lock
BusGetStatistics(t) ==
    /\ thread[t].pc = "idle"
    /\ HubBegun(t, [pc |-> "read_handlers", op |-> "getStatistics"])

BusStatisticsRead(t) ==
    /\ HubThread(t, "read_handlers")
    /\ thread' = [thread EXCEPT ![t] = IdleThread]
    /\ UNCHANGED <<hub_bus, hub_locks, memory_aggregates, terminated>>

\* --- MemoryApplicationService::getMemoryEntry()
ServiceGet(t) ==
    \E entry_id \in DOMAIN memory_aggregates \cup {UnknownEntryId} :
        HubBegun(t, [pc |-> "get_lock", op |-> "getMemoryEntry",
                     entry_id |-> entry_id])

\* DomainMemoryEngine::getMemoryEntry(): std::shared_lock lock(domain_mutex)
ServiceGetLock(t) ==
    /\ HubThread(t, "get_lock")
    /\ shared_granted(domain_mutex)
    /\ domain_readers' = domain_readers \cup {t}
    /\ thread' = [thread EXCEPT ![t].pc = "get_find"]
    /\ UNCHANGED <<hub_bus, domain_mutex, memory_aggregates, terminated>>

\* find() and return it->second.get(): the lock is released on return and
\* the caller is left with the address of the aggregate (its uid), if any
ServiceGetFind(t) ==
    /\ HubThread(t, "get_find")
    /\ domain_readers' = domain_readers \ {t}
    /\ LET found == getMemoryEntry(memory_aggregates, thread[t].entry_id)
       IN  thread' = [thread EXCEPT ![t] =
                        IF found = NoAggregate THEN IdleThread
                        ELSE [pc |-> "read_fields", op |-> "getMemoryEntry",
                              entry_id |-> thread[t].entry_id,
                              borrowed |-> found.uid]]
    /\ UNCHANGED <<hub_bus, domain_mutex, memory_aggregates, terminated>>

\* the aggregate a borrowed address points to is still the stored one
Alive(entry_id, uid) ==
    /\ find(memory_aggregates, entry_id)
    /\ memory_aggregates[entry_id].uid = uid

\* the next step of some thread or worker writes the aggregate uid
Mutating(uid) ==
    \/ \E t \in DomainThreads :
          /\ thread[t].pc = "updateSolution"
          /\ Alive(thread[t].entry_id, uid)
    \/ \E w \in Workers :
          /\ worker[w].pc = "handler_updateSolution"
          /\ Alive(worker[w].event.aggregate_id, uid)

\* entry->getId() ... entry->hasConflicts(): the fields are read through the
\* borrowed address with no lock held.  Reading an aggregate that has been
\* destroyed, or one a writer is changing, is undefined behaviour
ServiceReadFields(t) ==
    /\ HubThread(t, "read_fields")
    /\ thread' = [thread EXCEPT ![t] = IdleThread]
    /\ IF ~Alive(thread[t].entry_id, thread[t].borrowed)
       THEN terminated' \in {"", "use_after_free"}
       ELSE IF Mutating(thread[t].borrowed)
       THEN terminated' \in {"", "data_race"}
       ELSE UNCHANGED terminated
    /\ UNCHANGED <<hub_bus, hub_locks, memory_aggregates>>

\* --- updateMemoryEntry()
UpdateMemoryEntry(t) ==
    \E entry_id \in DOMAIN memory_aggregates \cup {UnknownEntryId} :
        HubBegun(t, [pc |-> "update_lock", op |-> "updateMemoryEntry",
                     op_no |-> n_session_calls + 1, entry_id |-> entry_id])

\* std::unique_lock lock(domain_mutex); find(): false for an id not stored
UpdateLock(t) ==
    /\ HubThread(t, "update_lock")
    /\ exclusive_granted
    /\ IF find(memory_aggregates, thread[t].entry_id)
       THEN /\ domain_mutex' = t
            /\ thread' = [thread EXCEPT ![t].pc = "updateSolution"]
       ELSE /\ UNCHANGED domain_mutex
            /\ thread' = [thread EXCEPT ![t] = IdleThread]
    /\ UNCHANGED <<hub_bus, domain_readers, memory_aggregates, terminated>>

\* it->second->updateSolution(new_solution, reason), and
\* commitAggregateEvents() taking the uncommitted events
UpdateSolution(t) ==
    /\ HubThread(t, "updateSolution")
    /\ LET entry_id == thread[t].entry_id
           moved == getUncommittedEvents(
                        updateSolution(memory_aggregates[entry_id], "s2", "fix",
                                       system_clock_now))
       IN  /\ memory_aggregates' = put(memory_aggregates, entry_id,
                                       moved.aggregate)
           /\ thread' = [thread EXCEPT ![t] =
                           [pc |-> "publish", op |-> "updateMemoryEntry",
                            op_no |-> thread[t].op_no,
                            aggregate |-> moved.aggregate,
                            events |-> moved.events, i |-> 1]]
    /\ UNCHANGED <<hub_bus, hub_locks, terminated>>

\* --- createMemoryEntry(): the unique lock waits for the readers too
CreateLockExclusive(t) ==
    /\ domain_readers = {}
    /\ ThreadLock(t)

\* --- the worker: a handler with an empty body
HandlerOf(w) ==
    handlers_of(handlers, worker[w].event.event_type)[worker[w].idx]

InHandlerLoop(w) ==
    /\ at_pc(w, "dispatch")
    /\ worker[w].idx <= Len(handlers_of(handlers, worker[w].event.event_type))

HandlerReturns(w) ==
    /\ InHandlerLoop(w)
    /\ HandlerOf(w) = "returns"
    /\ WorkerDispatch(w)

\* the worker with the next pc, and the call of the handler it runs
InHandler(w, pc, call) ==
    [worker EXCEPT ![w] =
        [pc |-> pc, event |-> worker[w].event, idx |-> worker[w].idx,
         temporary_of |-> worker[w].temporary_of, call |-> call]]

\* the handler has returned: the next handler of the vector
Returned(w) ==
    [worker EXCEPT ![w] =
        [pc |-> "dispatch", event |-> worker[w].event,
         idx |-> worker[w].idx + 1, temporary_of |-> worker[w].temporary_of]]

HubWorker(w, pc) ==
    /\ Hub
    /\ at_pc(w, pc)
    /\ UNCHANGED <<thread, n_session_calls, handlers, queue_cv, terminated>>

\* handler(event) is called for a handler with a body
HandlerCalled(w) ==
    /\ Hub
    /\ InHandlerLoop(w)
    /\ HandlerOf(w) \in HandlerBodies
    /\ delivered' = Append(delivered,
                           [handler |-> HandlerOf(w), idx |-> worker[w].idx,
                            event |-> worker[w].event, worker |-> w])
    /\ worker' = InHandler(w, CASE HandlerOf(w) = "publishes" -> "handler_publish"
                                [] HandlerOf(w) = "updates" -> "handler_update_lock"
                                [] HandlerOf(w) = "gets" -> "handler_get_lock",
                           <<>>)
    /\ UNCHANGED <<thread, n_session_calls, handlers, queue_cv, terminated,
                   hub_counters, queue_mutex, published, event_queue, hub_locks,
                   memory_aggregates>>

\* the handler calls publish(): the push under queue_mutex
HandlerPublish(w) ==
    /\ HubWorker(w, "handler_publish")
    /\ queue_mutex = NoThread
    /\ LET event == DomainEvent(worker[w].event.aggregate_id, "Custom",
                                [seq |-> Len(published) + 1], system_clock_now)
       IN  /\ event_queue' = publish(event_queue, event)
           /\ published' = Append(published, event)
    /\ worker' = [worker EXCEPT ![w].pc = "handler_notify"]
    /\ UNCHANGED <<hub_counters, queue_mutex, delivered, hub_locks,
                   memory_aggregates>>

\* notify_one() with no thread waiting, and the handler returns
HandlerNotify(w) ==
    /\ HubWorker(w, "handler_notify")
    /\ worker' = Returned(w)
    /\ UNCHANGED <<hub_counters, queue_mutex, delivered, published, event_queue,
                   hub_locks, memory_aggregates>>

\* the handler calls updateMemoryEntry(event.aggregate_id, ...)
HandlerUpdateLock(w) ==
    /\ HubWorker(w, "handler_update_lock")
    /\ exclusive_granted
    /\ IF find(memory_aggregates, worker[w].event.aggregate_id)
       THEN /\ domain_mutex' = WORKER
            /\ worker' = [worker EXCEPT ![w].pc = "handler_updateSolution"]
       ELSE /\ UNCHANGED domain_mutex
            /\ worker' = Returned(w)
    /\ UNCHANGED <<hub_counters, queue_mutex, delivered, published, event_queue,
                   domain_readers, memory_aggregates>>

HandlerUpdateSolution(w) ==
    /\ HubWorker(w, "handler_updateSolution")
    /\ LET entry_id == worker[w].event.aggregate_id
           moved == getUncommittedEvents(
                        updateSolution(memory_aggregates[entry_id], "s2", "fix",
                                       system_clock_now))
       IN  /\ memory_aggregates' = put(memory_aggregates, entry_id,
                                       moved.aggregate)
           /\ worker' = InHandler(w, "handler_update_publish", moved.events)
    /\ UNCHANGED <<hub_counters, queue_mutex, delivered, published, event_queue,
                   hub_locks>>

\* commitAggregateEvents(): publish() of the one event, under domain_mutex
HandlerUpdatePublish(w) ==
    /\ HubWorker(w, "handler_update_publish")
    /\ queue_mutex = NoThread
    /\ LET event == worker[w].call[1]
                    @@ [op_no |-> 0,
                        uid |-> memory_aggregates[worker[w].event.aggregate_id].uid]
       IN  /\ event_queue' = publish(event_queue, event)
           /\ published' = Append(published, event)
    /\ worker' = [worker EXCEPT ![w].pc = "handler_update_return"]
    /\ UNCHANGED <<hub_counters, queue_mutex, delivered, hub_locks,
                   memory_aggregates>>

\* notify_one() with no thread waiting, markEventsAsCommitted(), the lock
\* goes out of scope and the handler returns
HandlerUpdateReturn(w) ==
    /\ HubWorker(w, "handler_update_return")
    /\ domain_mutex' = ""
    /\ worker' = Returned(w)
    /\ UNCHANGED <<hub_counters, queue_mutex, delivered, published, event_queue,
                   domain_readers, memory_aggregates>>

\* the handler calls getMemoryEntry(event.aggregate_id)
HandlerGetLock(w) ==
    /\ HubWorker(w, "handler_get_lock")
    /\ shared_granted(domain_mutex)
    /\ domain_readers' = domain_readers \cup {WORKER}
    /\ worker' = [worker EXCEPT ![w].pc = "handler_get_find"]
    /\ UNCHANGED <<hub_counters, queue_mutex, delivered, published, event_queue,
                   domain_mutex, memory_aggregates>>

HandlerGetFind(w) ==
    /\ HubWorker(w, "handler_get_find")
    /\ domain_readers' = domain_readers \ {WORKER}
    /\ worker' = InHandler(w, "handler_findSolution",
                           getMemoryEntry(memory_aggregates,
                                          worker[w].event.aggregate_id))
    /\ UNCHANGED <<hub_counters, queue_mutex, delivered, published, event_queue,
                   domain_mutex, memory_aggregates>>

\* the handler then calls findSolution(problem, category) with the problem
\* and the category of its event; what the two calls yielded is kept with
\* the invocation (history)
HandlerFindSolution(w) ==
    /\ HubWorker(w, "handler_findSolution")
    /\ LET data == worker[w].event.event_data
           result == MemoryEngine_findSolution(category_index, data.problem,
                         final_category(data.problem, data.category), now)
       IN  /\ total_lookups' = total_lookups + 1
           /\ cache_hits' = IF counts_as_hit(result) THEN cache_hits + 1
                            ELSE cache_hits
           /\ delivered' = [delivered EXCEPT ![Len(delivered)] =
                               @ @@ [got |-> worker[w].call,
                                     cached |-> result.found]]
    /\ worker' = Returned(w)
    /\ UNCHANGED <<queue_mutex, published, event_queue, hub_locks,
                   memory_aggregates>>

HandlersSubscribe == \E t \in DomainThreads : SubscribeToEvents(t)
HandlersSubscribeLock == \E t \in DomainThreads : SubscribeLock(t)
HandlersSubscribeInsert == \E t \in DomainThreads : SubscribeInsert(t)
HandlersSubscribeUnlock == \E t \in DomainThreads : SubscribeUnlock(t)
HandlersBusGetStatistics == \E t \in DomainThreads : BusGetStatistics(t)
HandlersBusStatisticsRead == \E t \in DomainThreads : BusStatisticsRead(t)
HandlersServiceGet == \E t \in DomainThreads : ServiceGet(t)
HandlersServiceGetLock == \E t \in DomainThreads : ServiceGetLock(t)
HandlersServiceGetFind == \E t \in DomainThreads : ServiceGetFind(t)
HandlersServiceReadFields == \E t \in DomainThreads : ServiceReadFields(t)
HandlersUpdate == \E t \in DomainThreads : UpdateMemoryEntry(t)
HandlersUpdateLock == \E t \in DomainThreads : UpdateLock(t)
HandlersUpdateSolution == \E t \in DomainThreads : UpdateSolution(t)
HandlersCreateLock == \E t \in DomainThreads : CreateLockExclusive(t)

HandlersWorker ==
    \E w \in Workers :
        \/ WorkerCheckRunning(w)
        \/ WorkerLock(w)
        \/ WorkerWaitPred(w)
        \/ WorkerBlock(w)
        \/ WorkerDrain(w)
        \/ WorkerDispatched(w)
        \/ HandlerReturns(w)

HandlersHandler ==
    \E w \in Workers :
        \/ HandlerCalled(w)
        \/ HandlerPublish(w)
        \/ HandlerNotify(w)
        \/ HandlerUpdateLock(w)
        \/ HandlerUpdateSolution(w)
        \/ HandlerUpdatePublish(w)
        \/ HandlerUpdateReturn(w)
        \/ HandlerGetLock(w)
        \/ HandlerGetFind(w)
        \/ HandlerFindSolution(w)

HandlersNext ==
    \/ ThreadsInitialize
    \/ HandlersSubscribe
    \/ HandlersSubscribeLock
    \/ HandlersSubscribeInsert
    \/ HandlersSubscribeUnlock
    \/ HandlersBusGetStatistics
    \/ HandlersBusStatisticsRead
    \/ HandlersServiceGet
    \/ HandlersServiceGetLock
    \/ HandlersServiceGetFind
    \/ HandlersServiceReadFields
    \/ HandlersUpdate
    \/ HandlersUpdateLock
    \/ HandlersUpdateSolution
    \/ ThreadsCreateMemoryEntry
    \/ HandlersCreateLock
    \/ ThreadsPublish
    \/ ThreadsNotify
    \/ ThreadsCommitted
    \/ ThreadsStoreSolution
    \/ HandlersWorker
    \/ HandlersHandler

SpecHandlers == Init /\ [][HandlersNext]_vars


-----------------------------------------------------------------------------
(* Properties of the engine with handlers that call back                    *)

\* the worker is inside a handler that has a body
HandlerPcs ==
    {"handler_publish", "handler_notify", "handler_update_lock",
     "handler_updateSolution", "handler_update_publish",
     "handler_update_return", "handler_get_lock", "handler_get_find",
     "handler_findSolution"}

Handling(w) == w \in Workers /\ worker[w].pc \in HandlerPcs \cup {"dispatch"}

\* the thread holds a lock
Holding(t) ==
    \/ domain_mutex = t
    \/ t \in domain_readers
    \/ queue_mutex = thread_number(t)

\* a step of a call in progress
CallStep(t) ==
    \/ SubscribeLock(t) \/ SubscribeInsert(t) \/ SubscribeUnlock(t)
    \/ BusStatisticsRead(t)
    \/ ServiceGetLock(t) \/ ServiceGetFind(t) \/ ServiceReadFields(t)
    \/ UpdateLock(t) \/ UpdateSolution(t)
    \/ CreateLockExclusive(t) \/ ThreadPublish(t) \/ ThreadNotify(t)
    \/ ThreadCommitted(t) \/ ThreadStoreSolution(t)

\* C31: the worker never holds queue_mutex while it is in the handler loop,
\* so a publish() waits for no handler; and a handler that publishes, or that
\* calls updateMemoryEntry() or getMemoryEntry(), is never blocked for good:
\* whenever the worker is in a handler, the worker can step or a thread that
\* holds a lock can
C31_PublisherNeverWaits ==
    \A w \in Workers :
        (Handling(w) /\ terminated = "") =>
            /\ queue_mutex # w
            /\ \/ ENABLED HandlersHandler
               \/ ENABLED HandlersWorker
               \/ \E t \in DomainThreads : Holding(t) /\ ENABLED CallStep(t)

\* a handler called updateMemoryEntry() for the entry of its event and has
\* returned: the update event it committed was published from the worker
C31_Witness ==
    /\ terminated = ""
    /\ domain_mutex = ""
    /\ \A w \in Workers : worker[w].pc \notin HandlerPcs
    /\ \E j \in DOMAIN delivered : delivered[j].handler = "updates"
    /\ \E j \in DOMAIN delivered : delivered[j].handler = "publishes"
    /\ \E k \in DOMAIN published :
          /\ published[k].event_type = "MemoryEntryUpdated"
          /\ published[k].op_no = 0
    /\ \E k \in DOMAIN published : published[k].event_type = "Custom"

\* the invocations of a handler that called getMemoryEntry()
Gets == { j \in DOMAIN delivered : "got" \in DOMAIN delivered[j] }

\* C37: a handler of MemoryEntryCreated that calls
\* getMemoryEntry(event.aggregate_id) obtains the aggregate of that id, never
\* none, in every interleaving: while it holds the shared lock the id is in
\* the store
C37_HandlerFindsAggregate ==
    /\ \A j \in Gets :
          /\ delivered[j].got # NoAggregate
          /\ delivered[j].got.id = delivered[j].event.aggregate_id
    /\ \A w \in Workers :
          at_pc(w, "handler_get_find") =>
              find(memory_aggregates, worker[w].event.aggregate_id)

\* the handler obtained the aggregate and found nothing in the inner cache:
\* the creating thread had not reached storeSolution()
C37_Witness ==
    \E j \in Gets :
        /\ delivered[j].got # NoAggregate
        /\ ~delivered[j].cached
        /\ \E t \in DomainThreads : thread[t].pc = "storeSolution"

\* C38: no thread or worker reads the handler table (find, the handler loop,
\* getStatistics) while a subscribe() is inserting into it
C38_HandlerTableExclusive ==
    ~(Inserting # {} /\ ReadingTable)

\* C39: while the service reads the fields of the aggregate it borrowed, no
\* updateMemoryEntry() is changing that aggregate, and the aggregate has not
\* been replaced and destroyed by a createMemoryEntry() that made the same id
C39_BorrowedProtected ==
    \A t \in DomainThreads :
        thread[t].pc = "read_fields" =>
            /\ Alive(thread[t].entry_id, thread[t].borrowed)
            /\ ~Mutating(thread[t].borrowed)

====
